---- MODULE Spec2Model ----
(***************************************************************************)
(* Verification model of the strix agent runtime.                          *)
(*                                                                         *)
(* The module holds one state machine per component, each with its own     *)
(* specification over the shared variable list:                            *)
(*   SpecAgent    the AgentState lifecycle        (agents/state.py)         *)
(*   SpecBreaker  LLM.generate + CircuitBreaker   (llm/llm.py,              *)
(*                                                 llm/circuit_breaker.py)  *)
(*   SpecQueue    LLMRequestQueue.make_request    (llm/request_queue.py)    *)
(*   SpecEvents   Tracer event stream and poller  (telemetry/tracer.py)      *)
(*   SpecFindings vulnerability reports           (telemetry/tracer.py)      *)
(*   SpecPlan     RunPlan and run_plan.json       (telemetry/run_plan.py)    *)
(*   SpecWorker   the per-agent tool worker       (runtime/tool_server.py)   *)
(*   SpecCache    ResponseCache                   (llm/response_cache.py)    *)
(*   SpecRegistry the tool registry               (tools/registry.py)        *)
(*   SpecLoop     the agent loop over AgentState  (agents/state.py)          *)
(*   SpecExit     the end of the run              (interface/cli.py)         *)
(*   SpecReconciler  StateReconciler on AgentState (agents/reconciliation.py) *)
(*   SpecMessages    the loop check on the history (agents/reconciliation.py) *)
(*   SpecNotes    the notes tools            (tools/notes/notes_actions.py)  *)
(* A component that a specification does not drive stays in its initial    *)
(* state.  Timestamps are integers; None (a null timestamp) is -1.         *)
(***************************************************************************)
EXTENDS Integers, Sequences, FiniteSets, TLC

VARIABLES
    \* ---- AgentState (agents/state.py) ----
    status,               \* AgentState.status
    waiting_start_time,   \* AgentState.waiting_start_time (None or a time)
    iteration,            \* AgentState.iteration
    failure_reason,       \* AgentState.failure_reason
    final_result,         \* AgentState.final_result
    task,                 \* AgentState.task
    consecutive_empty_responses,
    agent_now,            \* datetime.now(UTC) as read by the agent
    agent_op,             \* history: the last AgentState operation applied
    prev_status,          \* history: status before the last operation
    \* ---- CircuitBreaker (llm/circuit_breaker.py) ----
    cb_state,             \* CircuitBreaker._state
    failure_count,        \* CircuitBreaker._failure_count
    last_failure_time,    \* CircuitBreaker._last_failure_time (None or a time)
    half_open_calls,      \* CircuitBreaker._half_open_calls
    cb_now,               \* time.time() as read by the breaker
    \* ---- LLM.generate, one call per caller thread (llm/llm.py) ----
    gpc,                  \* where each caller is inside generate
    current_state,        \* can_execute's local current_state, per caller
    attempt,              \* generate's loop variable, per caller
    retry_delay,          \* generate's local retry_delay, per caller
    generates,            \* number of generate calls started
    cached,               \* is the fingerprint of the caller's request in the response cache
    \* ---- history variables of the breaker model ----
    sends,                \* provider sends of the caller's current generate call
    fails_recorded,       \* record_failure calls of the current generate call
    all_retryable,        \* every send of the current call failed with a retryable error
    open_send,            \* was a request sent while the breaker was open
    ho_admitted,          \* callers admitted since the breaker last became half-open
    consec,               \* failures recorded since the last success or reset
    cb_op,                \* the breaker operation performed by the last step
    cb_prev,              \* CircuitBreaker._state before the last step
    \* ---- LLMRequestQueue (llm/request_queue.py) ----
    sem,                  \* value of LLMRequestQueue._semaphore
    last_request_time,    \* LLMRequestQueue._last_request_time
    q_now,                \* time.time() as read by the queue
    is_rate_limited,      \* rate_limit_state.is_rate_limited
    consecutive_rate_limits,  \* rate_limit_state.consecutive_rate_limits
    qpc,                  \* where each caller is inside make_request
    sleep_until,          \* now + sleep_needed of the caller's pass through the gate
    requests,             \* number of make_request calls started
    \* ---- history variables of the queue model ----
    holds_slot,           \* the caller acquired the semaphore and has not released it
    slots,                \* the release times the gate reserved, in order
    releases,             \* the times at which requests were sent, in order
    \* ---- Tracer event stream (telemetry/tracer.py) ----
    events,               \* Tracer.events, the in-memory event log
    events_file,          \* the lines of <run_dir>/events.jsonl
    epc,                  \* where each emitting thread is inside a log_* call
    pending,              \* the TracerEvent the thread has constructed
    emitted,              \* number of events constructed so far (the clock of timestamps)
    \* ---- a consumer thread polling Tracer.get_events_since ----
    ppc,                  \* where the consumer is inside get_events_since
    new_events,           \* get_events_since's local new_events
    cursor,               \* the cursor the consumer keeps: the last new_cursor returned
    received,             \* every event returned to the consumer, in order of receipt
    \* ---- the end of the run (interface/cli.py) ----
    exit_pc,              \* running, exiting (sys.exit was called) or exited
    \* ---- findings (telemetry/tracer.py, tools/reporting/reporting_actions.py) ----
    vulnerability_reports,  \* Tracer.vulnerability_reports
    vuln_files,           \* <run_dir>/vulnerabilities/<id>.md, as <<id, content>> pairs
    vuln_csv,             \* the rows of <run_dir>/vulnerabilities.csv (their id column)
    rpc,                  \* where each thread is inside create_vulnerability_report
    report_id,            \* add_vulnerability_report's local report_id, per thread
    report_content,       \* the content argument of the call, per thread
    findings_added,       \* number of create_vulnerability_report calls started
    tracers,              \* number of Tracer objects constructed on the run directory
    overwritten,          \* history: a write replaced the file of an existing id
    call_raised,          \* the exception that left the thread's last add_vulnerability_report
    \* ---- RunPlan (telemetry/run_plan.py) ----
    tasks,                \* RunPlan.tasks: status, phase_id, depends_on of each PlanTask
    phases,               \* RunPlan.phases: status of each PlanPhase
    current_task_id,      \* RunPlan.current_task_id
    current_phase_id,     \* RunPlan.current_phase_id
    is_paused,            \* RunPlan.is_paused
    plan_file,            \* <run_dir>/run_plan.json: absent, partial, stale or current
    saving,               \* RunPlan.save has opened the file and not yet closed it
    \* ---- tool server, the worker of one agent (runtime/tool_server.py) ----
    worker,               \* the process in agent_processes: none, alive, exiting or dead
    created,              \* number of worker processes created for the agent
    consecutive_errors,   \* agent_worker's local consecutive_errors
    busy,                 \* the request the worker has taken and not answered (0: none)
    request_q,            \* the request queue of each worker, by creation number
    response_q,           \* the response queue of each worker, by creation number
    xpc,                  \* where each execute_tool call is
    my_queues,            \* the queues ensure_agent_process returned to the call
    my_request,           \* the request the call has put
    got,                  \* the response the call has returned
    calls,                \* number of execute_tool calls started
    catchall_run,         \* history: catch-all failures since the worker's last success
    \* ---- ResponseCache (llm/response_cache.py) ----
    cache,                \* the keys of ResponseCache._cache, in the OrderedDict's order
    created_at,           \* CacheEntry.created_at of each stored key (None if not stored)
    stats,                \* ResponseCache._stats: hits, misses, evictions
    cache_now,            \* time.time() as read by the cache
    cache_ops,            \* number of cache operations performed
    cache_op,             \* history: the last operation, its key and what it returned
    recency,              \* history: the stored keys from least to most recently used
    \* ---- tool registry (tools/registry.py) ----
    tools,                \* the module-level list tools, one dict per registration
    tools_by_name,        \* the module-level dict _tools_by_name
    \* ---- StateReconciler (agents/reconciliation.py) ----
    messages,             \* AgentState.messages: role and content of each message
    issues,               \* the issues of the last check_for_issues call
    \* ---- notes (tools/notes/notes_actions.py) ----
    notes_storage,        \* the module-level dict _notes_storage
    notes_file,           \* the content of <run_dir>/notes.json
    note_calls,           \* number of note tool calls made (the clock of updated_at)
    note_op,              \* history: the tool called last
    note_result           \* history: the success field the last call returned

agentVars == <<status, waiting_start_time, iteration, failure_reason, final_result,
               task, consecutive_empty_responses, agent_now, agent_op, prev_status>>

breakerVars == <<cb_state, failure_count, last_failure_time, half_open_calls, cb_now>>
generateVars == <<gpc, current_state, attempt, retry_delay, generates, cached>>
breakerHist == <<sends, fails_recorded, all_retryable, open_send, ho_admitted, consec,
                 cb_op, cb_prev>>

queueVars == <<sem, last_request_time, q_now, is_rate_limited, consecutive_rate_limits,
               qpc, sleep_until, requests, holds_slot, slots, releases>>

eventVars == <<events, events_file, epc, pending, emitted>>
pollVars == <<ppc, new_events, cursor, received>>

findingVars == <<vulnerability_reports, vuln_files, vuln_csv, rpc, report_id,
                 report_content, findings_added, tracers, overwritten>>

planVars == <<tasks, phases, current_task_id, current_phase_id>>
planFileVars == <<is_paused, plan_file, saving>>

workerVars == <<worker, created, consecutive_errors, busy, request_q, response_q, xpc,
                my_queues, my_request, got, calls, catchall_run>>

cacheVars == <<cache, created_at, stats, cache_now, cache_ops, cache_op, recency>>
registryVars == <<tools, tools_by_name>>
reconcilerVars == <<messages, issues>>
notesVars == <<notes_storage, notes_file, note_calls, note_op, note_result>>

vars == <<agentVars, breakerVars, generateVars, breakerHist, queueVars, eventVars,
          pollVars, exit_pc, findingVars, call_raised, planVars, planFileVars, workerVars,
          cacheVars, registryVars, reconcilerVars, notesVars>>

None == -1

(***************************************************************************)
(*                          AgentState                                     *)
(***************************************************************************)

\* Bounds of the agent model.
MaxAgentTime == 3          \* the agent clock runs 0..MaxAgentTime
ExtraIterations == 2       \* increment_iteration is followed this far past max_iterations
MaxEmpty == 1              \* empty responses counted before a resume

\* Configuration of the modelled agent (AgentState field defaults are 300 / 300).
max_iterations == 2
max_wait_seconds == 1

RUNNING == "running"
WAITING_FOR_MESSAGE == "waiting_for_message"
WAITING_FOR_RECOVERY == "waiting_for_recovery"
COMPLETED == "completed"
FAILED == "failed"
STOPPED == "stopped"

AgentStatus == {RUNNING, WAITING_FOR_MESSAGE, WAITING_FOR_RECOVERY, COMPLETED, FAILED, STOPPED}
TerminalStatus == {COMPLETED, FAILED, STOPPED}
WaitingStatus == {WAITING_FOR_MESSAGE, WAITING_FOR_RECOVERY}

Reasons == {"max_iterations", "wait_timeout"}
Results == {"none", "report"}
Tasks == {"none", "task2"}

\* mutation of has_reached_max_iterations: the comparison is strict
has_reached_max_iterations_Strict == iteration > max_iterations

\* AgentState.has_reached_max_iterations
has_reached_max_iterations == iteration >= max_iterations

\* AgentState.should_stop
should_stop == status \in TerminalStatus \/ has_reached_max_iterations

\* AgentState.is_waiting_for_input
is_waiting_for_input == status \in WaitingStatus

\* mutation of has_waiting_timeout: the comparison is not strict
has_waiting_timeout_AtLimit ==
    IF ~is_waiting_for_input \/ waiting_start_time = None
    THEN FALSE
    ELSE (agent_now - waiting_start_time) >= max_wait_seconds

\* AgentState.has_waiting_timeout
has_waiting_timeout ==
    IF ~is_waiting_for_input \/ waiting_start_time = None
    THEN FALSE
    ELSE (agent_now - waiting_start_time) > max_wait_seconds

AgentInit ==
    /\ status = RUNNING
    /\ waiting_start_time = None
    /\ iteration = 0
    /\ failure_reason = "none"
    /\ final_result = "none"
    /\ task = "task1"
    /\ consecutive_empty_responses = 0
    /\ agent_now = 0
    /\ agent_op = "init"
    /\ prev_status = RUNNING

\* history bookkeeping shared by the operations
AgentHist(op) == agent_op' = op /\ prev_status' = status

\* AgentState.increment_iteration: no guard in the method
increment_iteration ==
    /\ iteration < max_iterations + ExtraIterations
    /\ iteration' = iteration + 1
    /\ AgentHist("increment_iteration")
    /\ UNCHANGED <<status, waiting_start_time, failure_reason, final_result, task,
                   consecutive_empty_responses, agent_now>>

\* mutation of CompletedWaitingStart: set_completed forgets to clear the timestamp
CompletedWaitingStart_Kept == waiting_start_time

\* the field waiting_start_time after set_completed
CompletedWaitingStart == None

\* AgentState.set_completed(final_result)
set_completed ==
    \E r \in Results :
        /\ status' = COMPLETED
        /\ final_result' = r
        /\ waiting_start_time' = CompletedWaitingStart
        /\ AgentHist("set_completed")
        /\ UNCHANGED <<iteration, failure_reason, task, consecutive_empty_responses,
                       agent_now>>

\* AgentState.set_failed(reason)
set_failed ==
    \E r \in Reasons :
        /\ status' = FAILED
        /\ failure_reason' = r
        /\ waiting_start_time' = None
        /\ AgentHist("set_failed")
        /\ UNCHANGED <<iteration, final_result, task, consecutive_empty_responses,
                       agent_now>>

\* AgentState.request_stop
request_stop ==
    /\ status' = STOPPED
    /\ waiting_start_time' = None
    /\ AgentHist("request_stop")
    /\ UNCHANGED <<iteration, failure_reason, final_result, task,
                   consecutive_empty_responses, agent_now>>

\* AgentState.enter_waiting_state(llm_failed)
enter_waiting_state ==
    \E llm_failed \in BOOLEAN :
        /\ status' = IF llm_failed THEN WAITING_FOR_RECOVERY ELSE WAITING_FOR_MESSAGE
        /\ waiting_start_time' = agent_now
        /\ AgentHist("enter_waiting_state")
        /\ UNCHANGED <<iteration, failure_reason, final_result, task,
                       consecutive_empty_responses, agent_now>>

\* AgentState.resume_from_waiting(new_task)
resume_from_waiting ==
    \E new_task \in Tasks :
        /\ status' = RUNNING
        /\ waiting_start_time' = None
        /\ failure_reason' = "none"
        /\ consecutive_empty_responses' = 0
        /\ task' = IF new_task # "none" THEN new_task ELSE task
        /\ AgentHist("resume_from_waiting")
        /\ UNCHANGED <<iteration, final_result, agent_now>>

\* The agent loop counts an empty thinker response (the field is a plain
\* counter of AgentState; only resume_from_waiting resets it).
count_empty_response ==
    /\ consecutive_empty_responses < MaxEmpty
    /\ consecutive_empty_responses' = consecutive_empty_responses + 1
    /\ AgentHist("count_empty_response")
    /\ UNCHANGED <<status, waiting_start_time, iteration, failure_reason, final_result,
                   task, agent_now>>

\* datetime.now(UTC) advances
AgentTick ==
    /\ agent_now < MaxAgentTime
    /\ agent_now' = agent_now + 1
    /\ UNCHANGED <<status, waiting_start_time, iteration, failure_reason, final_result,
                   task, consecutive_empty_responses, agent_op, prev_status>>

(***************************************************************************)
(*              CircuitBreaker and LLM.generate                            *)
(***************************************************************************)

\* Bounds of the breaker model.
MaxBreakerTime == 3        \* the breaker clock runs 0..MaxBreakerTime
MaxGenerates == 3          \* generate calls started in one behaviour

\* Configuration of the modelled breaker (defaults 5, 60 s, 1).
failure_threshold == 2
recovery_timeout == 2
half_open_max_calls == 1

\* llm.py retry configuration and the retry wrapper of _reliable_request
MAX_RETRIES == 3
INITIAL_RETRY_DELAY == 2
MAX_RETRY_DELAY == 16
RELIABLE_REQUEST_ATTEMPTS == 7

CLOSED == "closed"
OPEN == "open"
HALF_OPEN == "half_open"

\* threads that call LLM.generate on the shared (global) breaker
GCallers == {"g1", "g2"}

\* Exceptions of a provider call, by the handler of generate that catches them:
\*   "retryable"     RETRYABLE_ERRORS (429, 408, 503, 500 status codes)
\*   "nonretryable"  the listed non-retryable errors (4xx status codes)
\*   "unknown"       any other exception (e.g. RuntimeError, no status code)
ErrKinds == {"retryable", "nonretryable", "unknown"}

\* request_queue.should_retry_exception: litellm._should_retry(status_code) for an
\* exception with a status code (true for 408, 409, 429, >= 500), else True
should_retry_exception(e) == e \in {"retryable", "unknown"}

Min(a, b) == IF a < b THEN a ELSE b

\* CircuitBreaker._should_attempt_recovery
should_attempt_recovery ==
    IF last_failure_time = None THEN TRUE
    ELSE cb_now - last_failure_time >= recovery_timeout

BreakerInit ==
    /\ cb_state = CLOSED
    /\ failure_count = 0
    /\ last_failure_time = None
    /\ half_open_calls = 0
    /\ cb_now = 0
    /\ gpc = [c \in GCallers |-> "idle"]
    /\ current_state = [c \in GCallers |-> "none"]
    /\ attempt = [c \in GCallers |-> 0]
    /\ retry_delay = [c \in GCallers |-> INITIAL_RETRY_DELAY]
    /\ generates = 0
    /\ cached = [c \in GCallers |-> FALSE]
    /\ sends = [c \in GCallers |-> 0]
    /\ fails_recorded = [c \in GCallers |-> 0]
    /\ all_retryable = [c \in GCallers |-> TRUE]
    /\ open_send = "none"
    /\ ho_admitted = 0
    /\ consec = 0
    /\ cb_op = "none"
    /\ cb_prev = CLOSED

\* ---- the breaker's operations, as effects on its fields ----

\* mutation of ClosedSuccessCount: a success while closed leaves the count alone
ClosedSuccessCount_Kept == failure_count

\* _failure_count after a success is recorded while the breaker is closed
ClosedSuccessCount == 0

\* CircuitBreaker.record_success (one critical section)
record_success ==
    /\ cb_state' = IF cb_state = HALF_OPEN THEN CLOSED ELSE cb_state
    /\ failure_count' = IF cb_state = HALF_OPEN THEN 0
                        ELSE IF cb_state = CLOSED THEN ClosedSuccessCount
                        ELSE failure_count
    /\ half_open_calls' = IF cb_state = HALF_OPEN THEN 0 ELSE half_open_calls
    /\ consec' = 0
    /\ cb_op' = "record_success"
    /\ cb_prev' = cb_state
    /\ UNCHANGED <<last_failure_time, ho_admitted>>

\* mutation of HalfOpenFailureState: a failed probe leaves the breaker half-open
HalfOpenFailureState_Stays == HALF_OPEN

\* the state a failure recorded while half-open leaves the breaker in
HalfOpenFailureState == OPEN

\* CircuitBreaker.record_failure (one critical section)
record_failure ==
    /\ failure_count' = failure_count + 1
    /\ last_failure_time' = cb_now
    /\ cb_state' = IF cb_state = HALF_OPEN THEN HalfOpenFailureState
                   ELSE IF cb_state = CLOSED /\ failure_count + 1 >= failure_threshold
                        THEN OPEN
                   ELSE cb_state
    /\ consec' = consec + 1
    /\ cb_op' = "record_failure"
    /\ cb_prev' = cb_state
    /\ UNCHANGED <<half_open_calls, ho_admitted>>

\* CircuitBreaker.reset: manual reset, callable at any time
reset ==
    /\ cb_state' = CLOSED
    /\ failure_count' = 0
    /\ half_open_calls' = 0
    /\ consec' = 0
    /\ cb_op' = "reset"
    /\ cb_prev' = cb_state
    /\ UNCHANGED <<last_failure_time, cb_now, ho_admitted>>
    /\ UNCHANGED <<generateVars, sends, fails_recorded, all_retryable, open_send>>

\* ---- LLM.generate, step by step for caller c ----

\* generate is called: locals are fresh; the next step is raise_if_open
G_Start(c) ==
    /\ gpc[c] \in {"idle", "done", "failed", "rejected"}
    /\ generates < MaxGenerates
    /\ generates' = generates + 1
    /\ \E stored \in BOOLEAN : cached' = [cached EXCEPT ![c] = stored]
    /\ gpc' = [gpc EXCEPT ![c] = "state"]
    /\ attempt' = [attempt EXCEPT ![c] = 0]
    /\ retry_delay' = [retry_delay EXCEPT ![c] = INITIAL_RETRY_DELAY]
    /\ sends' = [sends EXCEPT ![c] = 0]
    /\ fails_recorded' = [fails_recorded EXCEPT ![c] = 0]
    /\ all_retryable' = [all_retryable EXCEPT ![c] = TRUE]
    /\ cb_op' = "none"
    /\ cb_prev' = cb_state
    /\ UNCHANGED <<breakerVars, current_state, open_send, ho_admitted, consec>>

\* CircuitBreaker.state (property), read by can_execute: one critical section
G_State(c) ==
    /\ gpc[c] = "state"
    /\ LET recover == cb_state = OPEN /\ should_attempt_recovery
           s == IF recover THEN HALF_OPEN ELSE cb_state
       IN /\ cb_state' = s
          /\ half_open_calls' = IF recover THEN 0 ELSE half_open_calls
          /\ ho_admitted' = IF recover THEN 0 ELSE ho_admitted
          /\ current_state' = [current_state EXCEPT ![c] = s]
    /\ gpc' = [gpc EXCEPT ![c] = "can_execute"]
    /\ cb_op' = "state"
    /\ cb_prev' = cb_state
    /\ UNCHANGED <<failure_count, last_failure_time, cb_now, attempt, retry_delay,
                   generates, cached, sends, fails_recorded, all_retryable, open_send,
                   consec>>

\* CircuitBreaker.can_execute after reading state (a second critical section when
\* half-open); raise_if_open raises CircuitBreakerError when it returns False and
\* generate turns that into LLMRequestFailedError
G_CanExecute(c) ==
    /\ gpc[c] = "can_execute"
    /\ LET can == IF current_state[c] = CLOSED THEN TRUE
                  ELSE IF current_state[c] = HALF_OPEN
                       THEN half_open_calls < half_open_max_calls
                  ELSE FALSE
       IN gpc' = [gpc EXCEPT ![c] = IF can THEN "track" ELSE "rejected"]
    /\ current_state' = [current_state EXCEPT ![c] = "none"]
    /\ cb_op' = "none"
    /\ cb_prev' = cb_state
    /\ UNCHANGED <<breakerVars, attempt, retry_delay, generates, cached,
                   sends, fails_recorded, all_retryable, open_send, ho_admitted, consec>>

\* raise_if_open, "Track half-open calls": a third critical section
G_Track(c) ==
    /\ gpc[c] = "track"
    /\ half_open_calls' = IF cb_state = HALF_OPEN THEN half_open_calls + 1
                          ELSE half_open_calls
    /\ ho_admitted' = IF cb_state = HALF_OPEN THEN ho_admitted + 1 ELSE ho_admitted
    /\ gpc' = [gpc EXCEPT ![c] = "request"]
    /\ cb_op' = "raise_if_open"
    /\ cb_prev' = cb_state
    /\ UNCHANGED <<cb_state, failure_count, last_failure_time, cb_now, current_state,
                   attempt, retry_delay, generates, cached, sends, fails_recorded,
                   all_retryable, open_send, consec>>

\* is the breaker open with its recovery timeout still running
OpenWithinTimeout ==
    /\ cb_state = OPEN
    /\ consec >= failure_threshold
    /\ last_failure_time # None
    /\ cb_now - last_failure_time < recovery_timeout

\* history: a request of caller c goes to the provider now
NoteSend(c) ==
    open_send' = IF ~OpenWithinTimeout THEN open_send
                 ELSE IF attempt[c] > 0 THEN "retry"
                 ELSE IF open_send = "none" THEN "first"
                 ELSE open_send

\* history: the attempt of caller c ended; sends and fails_recorded are followed
\* as long as every send of the call failed with a retryable error
NoteAttempt(c, n, retryable_failure) ==
    LET still == all_retryable[c] /\ retryable_failure
    IN /\ all_retryable' = [all_retryable EXCEPT ![c] = still]
       /\ sends' = [sends EXCEPT ![c] = IF still THEN @ + n ELSE 0]
       /\ fails_recorded' = [fails_recorded EXCEPT ![c] = IF still THEN @ + 1 ELSE 0]

(* One iteration of generate's retry loop is one step: _make_request (cache    *)
(* probe, queue.make_request with the retry wrapper of _reliable_request) and  *)
(* the handler of its outcome.  The iteration touches the shared breaker only  *)
(* in the single record_success/record_failure call of its handler, so taking  *)
(* it as one step keeps every order of breaker operations between callers.     *)

\* LLM._make_request finds the fingerprint in the response cache (whether it is
\* stored is an input of the call, drawn when generate starts); the try body of
\* generate records a success and returns
G_CacheHit(c) ==
    /\ gpc[c] = "request"
    /\ cached[c]
    /\ record_success
    /\ NoteAttempt(c, 0, FALSE)
    /\ gpc' = [gpc EXCEPT ![c] = "done"]
    /\ UNCHANGED <<cb_now, current_state, attempt, retry_delay, generates, cached,
                   open_send>>

\* cache miss, queue.make_request returns a response: record_success, return
G_AttemptOk(c) ==
    /\ gpc[c] = "request"
    /\ ~cached[c]
    /\ NoteSend(c)
    /\ record_success
    /\ NoteAttempt(c, 1, FALSE)
    /\ cached' = [cached EXCEPT ![c] = TRUE]
    /\ gpc' = [gpc EXCEPT ![c] = "done"]
    /\ UNCHANGED <<cb_now, current_state, attempt, retry_delay, generates>>

\* the number of generate-level attempts after which a retryable error is final
AttemptsLeft(c) == attempt[c] < MAX_RETRIES

\* cache miss, every completion() call of _reliable_request raises one of
\* RETRYABLE_ERRORS: should_retry_exception holds for them, so the wrapper sends
\* RELIABLE_REQUEST_ATTEMPTS times before generate sees the exception.
\* generate, except RETRYABLE_ERRORS: record_failure; with attempts left sleep
\* retry_delay, double it up to MAX_RETRY_DELAY and continue; else raise
G_AttemptRetryable(c) ==
    /\ gpc[c] = "request"
    /\ ~cached[c]
    /\ should_retry_exception("retryable")
    /\ NoteSend(c)
    /\ record_failure
    /\ NoteAttempt(c, RELIABLE_REQUEST_ATTEMPTS, TRUE)
    /\ IF AttemptsLeft(c)
       THEN /\ gpc' = [gpc EXCEPT ![c] = "request"]
            /\ attempt' = [attempt EXCEPT ![c] = @ + 1]
            /\ retry_delay' = [retry_delay EXCEPT ![c] = Min(@ * 2, MAX_RETRY_DELAY)]
       ELSE /\ gpc' = [gpc EXCEPT ![c] = "failed"]
            /\ UNCHANGED <<attempt, retry_delay>>
    /\ UNCHANGED <<cb_now, current_state, generates, cached>>

\* mutation of NonRetryableRecord: the handler reports the failure to the breaker
NonRetryableRecord_Failure ==
    /\ cb_op' = "non_retryable"
    /\ cb_prev' = cb_state
    /\ failure_count' = failure_count + 1
    /\ last_failure_time' = cb_now
    /\ cb_state' = IF cb_state = HALF_OPEN THEN OPEN
                   ELSE IF cb_state = CLOSED /\ failure_count + 1 >= failure_threshold
                        THEN OPEN
                   ELSE cb_state
    /\ consec' = consec + 1
    /\ UNCHANGED <<half_open_calls, ho_admitted>>

\* what generate's handler of the non-retryable errors does to the breaker:
\* nothing ("don't affect circuit breaker")
NonRetryableRecord ==
    /\ cb_op' = "non_retryable"
    /\ cb_prev' = cb_state
    /\ UNCHANGED <<cb_state, failure_count, last_failure_time, half_open_calls,
                   ho_admitted, consec>>

\* cache miss, a completion() call raises a listed non-retryable error (a 4xx
\* status, not retried by the wrapper).  generate, except (AuthenticationError,
\* ...): fail at once, the breaker is not told
G_AttemptNonRetryable(c) ==
    /\ gpc[c] = "request"
    /\ ~cached[c]
    /\ ~should_retry_exception("nonretryable")
    /\ NoteSend(c)
    /\ NoteAttempt(c, 1, FALSE)
    /\ NonRetryableRecord
    /\ gpc' = [gpc EXCEPT ![c] = "failed"]
    /\ UNCHANGED <<cb_now, current_state, attempt, retry_delay, generates, cached>>

\* cache miss, the call ends with any other exception.
\* generate, except Exception: record_failure and fail
G_AttemptUnknown(c) ==
    /\ gpc[c] = "request"
    /\ ~cached[c]
    /\ NoteSend(c)
    /\ record_failure
    /\ NoteAttempt(c, 1, FALSE)
    /\ gpc' = [gpc EXCEPT ![c] = "failed"]
    /\ UNCHANGED <<cb_now, current_state, attempt, retry_delay, generates, cached>>

\* time.time() advances
BreakerTick ==
    /\ cb_now < MaxBreakerTime
    /\ cb_now' = cb_now + 1
    /\ cb_op' = "none"
    /\ cb_prev' = cb_state
    /\ UNCHANGED <<cb_state, failure_count, last_failure_time, half_open_calls,
                   generateVars, sends, fails_recorded, all_retryable, open_send,
                   ho_admitted, consec>>

(***************************************************************************)
(*                 LLMRequestQueue.make_request                            *)
(***************************************************************************)

\* Bounds of the queue model.
MaxQueueTime == 5          \* the queue clock runs up to MaxQueueTime
MaxRequests == 4           \* make_request calls started in one behaviour

\* Configuration of the modelled queue (defaults 6 and 5.0 s).
max_concurrent == 2
delay_between_requests == 2

\* coroutines (of any event loop thread) that call make_request
QCallers == {"q1", "q2", "q3"}

Max(a, b) == IF a > b THEN a ELSE b

\* time.time() is far beyond delay_between_requests when the queue is built with
\* _last_request_time = 0.0; the model's clock starts one delay after 0.
QueueInit ==
    /\ sem = max_concurrent
    /\ last_request_time = 0
    /\ q_now = delay_between_requests
    /\ is_rate_limited = FALSE
    /\ consecutive_rate_limits = 0
    /\ qpc = [c \in QCallers |-> "idle"]
    /\ sleep_until = [c \in QCallers |-> None]
    /\ requests = 0
    /\ holds_slot = [c \in QCallers |-> FALSE]
    /\ slots = <<>>
    /\ releases = <<>>

\* threading.BoundedSemaphore.release: raises ValueError at the initial value.
\* The result is <<new value, raised>>.
SemRelease(v) == IF v >= max_concurrent THEN <<v, TRUE>> ELSE <<v + 1, FALSE>>

\* make_request, the finally clause: self._semaphore.release(), reached on every
\* way out of the try block, whether or not the slot was acquired
Finally(c, outcome) ==
    /\ sem' = SemRelease(sem)[1]
    /\ qpc' = [qpc EXCEPT ![c] = IF SemRelease(sem)[2] THEN "value_error" ELSE outcome]
    /\ holds_slot' = [holds_slot EXCEPT ![c] = FALSE]
    /\ sleep_until' = [sleep_until EXCEPT ![c] = None]

\* make_request is called: stats.total_requests += 1, then the acquire loop
Q_Start(c) ==
    /\ qpc[c] \in {"idle", "done", "failed", "cancelled", "value_error"}
    /\ requests < MaxRequests
    /\ requests' = requests + 1
    /\ qpc' = [qpc EXCEPT ![c] = "acquire"]
    /\ UNCHANGED <<sem, last_request_time, q_now, is_rate_limited,
                   consecutive_rate_limits, sleep_until, holds_slot, slots, releases>>

\* self._semaphore.acquire(timeout=0.2) succeeds; rate_limit_state.is_rate_limited
\* is read next: when set, _calculate_rate_limit_delay() > 0 and the caller sleeps
Q_AcquireOk(c) ==
    /\ qpc[c] = "acquire"
    /\ sem > 0
    /\ sem' = sem - 1
    /\ holds_slot' = [holds_slot EXCEPT ![c] = TRUE]
    /\ qpc' = [qpc EXCEPT ![c] = IF is_rate_limited THEN "rate_limit_sleep" ELSE "gate"]
    /\ UNCHANGED <<last_request_time, q_now, is_rate_limited, consecutive_rate_limits,
                   sleep_until, requests, slots, releases>>

\* acquire times out with no slot free: await asyncio.sleep(0.1)
Q_AcquireTimeout(c) ==
    /\ qpc[c] = "acquire"
    /\ sem = 0
    /\ qpc' = [qpc EXCEPT ![c] = "slot_wait"]
    /\ UNCHANGED <<sem, last_request_time, q_now, is_rate_limited,
                   consecutive_rate_limits, sleep_until, requests, holds_slot, slots,
                   releases>>

\* the sleep of the acquire loop ends: acquire is tried again
Q_SlotWake(c) ==
    /\ qpc[c] = "slot_wait"
    /\ qpc' = [qpc EXCEPT ![c] = "acquire"]
    /\ UNCHANGED <<sem, last_request_time, q_now, is_rate_limited,
                   consecutive_rate_limits, sleep_until, requests, holds_slot, slots,
                   releases>>

\* the extra rate-limit sleep ends
Q_RateLimitWake(c) ==
    /\ qpc[c] = "rate_limit_sleep"
    /\ qpc' = [qpc EXCEPT ![c] = "gate"]
    /\ UNCHANGED <<sem, last_request_time, q_now, is_rate_limited,
                   consecutive_rate_limits, sleep_until, requests, holds_slot, slots,
                   releases>>

\* mutation of NextRequestTime: the gate stores the time of the call, not the
\* reserved release time
NextRequestTime_Now(now, sleep_needed) == now

\* the value stored in _last_request_time by the spacing gate
NextRequestTime(now, sleep_needed) == now + sleep_needed

\* make_request, "with self._lock": the spacing gate
Q_Gate(c) ==
    /\ qpc[c] = "gate"
    /\ LET now == q_now
           time_since_last == now - last_request_time
           sleep_needed == Max(0, delay_between_requests - time_since_last)
       IN /\ last_request_time' = NextRequestTime(now, sleep_needed)
          /\ sleep_until' = [sleep_until EXCEPT ![c] = now + sleep_needed]
          /\ slots' = Append(slots, now + sleep_needed)
    /\ qpc' = [qpc EXCEPT ![c] = "gate_sleep"]
    /\ UNCHANGED <<sem, q_now, is_rate_limited, consecutive_rate_limits, requests,
                   holds_slot, releases>>

\* "if sleep_needed > 0: await asyncio.sleep(sleep_needed)" is over (the sleep
\* lasts at least sleep_needed) and _reliable_request sends the request
Q_Send(c) ==
    /\ qpc[c] = "gate_sleep"
    /\ q_now >= sleep_until[c]
    /\ releases' = Append(releases, q_now)
    /\ qpc' = [qpc EXCEPT ![c] = "in_flight"]
    /\ UNCHANGED <<sem, last_request_time, q_now, is_rate_limited,
                   consecutive_rate_limits, sleep_until, requests, holds_slot, slots>>

\* _reliable_request returns a response: stats.successful_requests += 1,
\* _clear_rate_limit_state(), return; finally
Q_Success(c) ==
    /\ qpc[c] = "in_flight"
    /\ is_rate_limited' = FALSE
    /\ consecutive_rate_limits' = 0
    /\ Finally(c, "done")
    /\ UNCHANGED <<last_request_time, q_now, requests, slots, releases>>

\* _reliable_request raises after its retries (or at once for an exception that
\* should_retry_exception rejects): stats.failed_requests += 1,
\* _handle_rate_limit_error for a rate-limit error, re-raise; finally
Q_Failure(c) ==
    /\ qpc[c] = "in_flight"
    /\ \E rate_limit_error \in BOOLEAN :
        /\ is_rate_limited' = (is_rate_limited \/ rate_limit_error)
        /\ consecutive_rate_limits' =
              IF rate_limit_error THEN consecutive_rate_limits + 1
              ELSE consecutive_rate_limits
    /\ Finally(c, "failed")
    /\ UNCHANGED <<last_request_time, q_now, requests, slots, releases>>

\* the caller's task is cancelled while it awaits (the acquire-loop sleep, the
\* rate-limit sleep, the spacing sleep, a retry wait of _reliable_request):
\* CancelledError is not an Exception, so only the finally clause runs
Q_Cancel(c) ==
    /\ qpc[c] \in {"slot_wait", "rate_limit_sleep", "gate_sleep", "in_flight"}
    /\ Finally(c, "cancelled")
    /\ UNCHANGED <<last_request_time, q_now, is_rate_limited, consecutive_rate_limits,
                   requests, slots, releases>>

\* time.time() advances
QueueTick ==
    /\ q_now < MaxQueueTime
    /\ q_now' = q_now + 1
    /\ UNCHANGED <<sem, last_request_time, is_rate_limited, consecutive_rate_limits,
                   qpc, sleep_until, requests, holds_slot, slots, releases>>

(***************************************************************************)
(*                    Tracer: the event stream                             *)
(***************************************************************************)

\* Bounds of the event-stream model.
MaxEvents == 3             \* events constructed in one behaviour

\* agent threads that log events on the shared (global) tracer
Emitters == {"a1", "a2"}

\* TracerEvent(event_type, timestamp, agent_id, data): the dataclass has these
\* four fields and no other
TracerEvent(type, stamp, agent) ==
    [event_type |-> type, timestamp |-> stamp, agent_id |-> agent, data |-> "data"]

\* TracerEvent.to_dict: the JSON object written as one line of events.jsonl
to_dict(e) ==
    [event_type |-> e.event_type, timestamp |-> e.timestamp, agent_id |-> e.agent_id,
     data |-> e.data]

EventsInit ==
    /\ events = << >>
    /\ events_file = << >>
    /\ epc = [c \in Emitters |-> "idle"]
    /\ pending = [c \in Emitters |-> "none"]
    /\ emitted = 0

\* log_agent_iteration and the other log_* methods: construct the event,
\* stamped with datetime.now(UTC), then call _emit_event
E_Create(c) ==
    /\ epc[c] = "idle"
    /\ emitted < MaxEvents
    /\ emitted' = emitted + 1
    /\ pending' = [pending EXCEPT ![c] = TracerEvent("agent_iteration", emitted + 1, c)]
    /\ epc' = [epc EXCEPT ![c] = "created"]
    /\ UNCHANGED <<events, events_file>>

\* _emit_event: self.events.append(event)
E_Append(c) ==
    /\ epc[c] = "created"
    /\ events' = Append(events, pending[c])
    /\ epc' = [epc EXCEPT ![c] = "appended"]
    /\ UNCHANGED <<events_file, pending, emitted>>

\* _emit_event: the line is appended to events.jsonl; then the callback, whose
\* exception is logged and suppressed
E_WriteOk(c) ==
    /\ epc[c] = "appended"
    /\ events_file' = Append(events_file, to_dict(pending[c]))
    /\ epc' = [epc EXCEPT ![c] = "idle"]
    /\ pending' = [pending EXCEPT ![c] = "none"]
    /\ UNCHANGED <<events, emitted>>

\* _emit_event: opening or writing events.jsonl raises OSError, which is logged;
\* the event stays in self.events
E_WriteFail(c) ==
    /\ epc[c] = "appended"
    /\ epc' = [epc EXCEPT ![c] = "idle"]
    /\ pending' = [pending EXCEPT ![c] = "none"]
    /\ UNCHANGED <<events, events_file, emitted>>

\* A consumer of the event stream: it starts at cursor 0 and always polls
\* get_events_since with the cursor the previous poll returned.
PollInit ==
    /\ ppc = "idle"
    /\ new_events = << >>
    /\ cursor = 0
    /\ received = << >>

\* self.events[cursor:] for a cursor >= 0
Slice(log, c) == SubSeq(log, c + 1, Len(log))

\* get_events_since: new_events = self.events[cursor:]
P_Slice ==
    /\ ppc = "idle"
    /\ new_events' = Slice(events, cursor)
    /\ ppc' = "sliced"
    /\ UNCHANGED <<cursor, received>>

\* get_events_since: return new_events, len(self.events); the consumer keeps
\* the events and the returned cursor
P_Return ==
    /\ ppc = "sliced"
    /\ received' = received \o new_events
    /\ cursor' = Len(events)
    /\ new_events' = << >>
    /\ ppc' = "idle"

\* The end of the run.  run_cli registers cleanup_on_exit with atexit and
\* signal_handler for SIGINT, SIGTERM and SIGHUP; both call Tracer.cleanup,
\* which is save_run_data.
ExitInit == exit_pc = "running"

\* Tracer.save_run_data: the scan_complete event is constructed, stamped with
\* end_time, and passed to _emit_event; nothing records that it was emitted
\* before
cleanup ==
    LET event == TracerEvent("scan_complete", emitted, "none")
    IN /\ events' = Append(events, event)
       /\ events_file' = Append(events_file, to_dict(event))
       /\ UNCHANGED <<epc, pending, emitted>>

\* signal_handler: tracer.cleanup() and then sys.exit(1)
signal_handler ==
    /\ exit_pc = "running"
    /\ cleanup
    /\ exit_pc' = "exiting"

\* cleanup_on_exit, run by atexit when the interpreter exits: after run_cli
\* returned or after sys.exit was called
cleanup_on_exit ==
    /\ exit_pc \in {"running", "exiting"}
    /\ cleanup
    /\ exit_pc' = "exited"

(***************************************************************************)
(*                    Tracer: findings                                     *)
(***************************************************************************)

\* Bounds of the findings model.
MaxFindings == 3           \* create_vulnerability_report calls in one behaviour
MaxTracers == 2            \* Tracer objects constructed on the same run directory

\* threads that call create_vulnerability_report
Reporters == {"r1", "r2"}

\* the ids of the reports in a list, in order (report_id "vuln-%04d" % n is
\* modelled by the number n: the format is one-to-one)
Ids(reports) == [i \in 1..Len(reports) |-> reports[i].id]

\* the set of elements of a sequence
Range(seq) == {seq[i] : i \in 1..Len(seq)}

\* open(<id>.md, "w") followed by the writes: the file of id holds content
WriteFile(files, id, content) ==
    {f \in files : f[1] # id} \cup {<<id, content>>}

FindingsInit ==
    /\ vulnerability_reports = << >>
    /\ vuln_files = {}
    /\ vuln_csv = << >>
    /\ rpc = [c \in Reporters |-> "idle"]
    /\ report_id = [c \in Reporters |-> 0]
    /\ report_content = [c \in Reporters |-> 0]
    /\ findings_added = 0
    /\ tracers = 1
    /\ overwritten = FALSE
    /\ call_raised = [c \in Reporters |-> "none"]

\* create_vulnerability_report -> Tracer.add_vulnerability_report:
\* report_id = f"vuln-{len(self.vulnerability_reports) + 1:04d}"
R_Start(c) ==
    /\ rpc[c] = "idle"
    /\ findings_added < MaxFindings
    /\ findings_added' = findings_added + 1
    /\ report_id' = [report_id EXCEPT ![c] = Len(vulnerability_reports) + 1]
    /\ report_content' = [report_content EXCEPT ![c] = findings_added + 1]
    /\ rpc' = [rpc EXCEPT ![c] = "append"]
    /\ call_raised' = [call_raised EXCEPT ![c] = "none"]
    /\ UNCHANGED <<vulnerability_reports, vuln_files, vuln_csv, tracers, overwritten>>

\* add_vulnerability_report: self.vulnerability_reports.append(report); the
\* vulnerability callback returns (or none is registered)
R_Append(c) ==
    /\ rpc[c] = "append"
    /\ vulnerability_reports' =
          Append(vulnerability_reports, [id |-> report_id[c], content |-> report_content[c]])
    /\ rpc' = [rpc EXCEPT ![c] = "save"]
    /\ UNCHANGED <<vuln_files, vuln_csv, report_id, report_content, findings_added,
                   tracers, overwritten>>

\* the exception of the vulnerability callback leaves add_vulnerability_report:
\* the call at tracer.py 162-165 is not inside a try block
CallbackOutcome == "callback"

\* add_vulnerability_report: the report is appended and the registered
\* vulnerability_found_callback raises; the exception leaves
\* add_vulnerability_report, so _save_vulnerability_to_disk is never called
R_AppendCallbackRaises(c) ==
    /\ rpc[c] = "append"
    /\ vulnerability_reports' =
          Append(vulnerability_reports, [id |-> report_id[c], content |-> report_content[c]])
    /\ rpc' = [rpc EXCEPT ![c] = "idle"]
    /\ call_raised' = [call_raised EXCEPT ![c] = CallbackOutcome]
    /\ UNCHANGED <<vuln_files, vuln_csv, report_id, report_content, findings_added,
                   tracers, overwritten>>

\* _save_vulnerability_to_disk succeeds: <id>.md is written with mode "w" and a
\* row is appended to vulnerabilities.csv
R_SaveOk(c) ==
    /\ rpc[c] = "save"
    /\ vuln_files' = WriteFile(vuln_files, report_id[c], report_content[c])
    /\ vuln_csv' = Append(vuln_csv, report_id[c])
    /\ overwritten' = (overwritten \/ \E f \in vuln_files : f[1] = report_id[c])
    /\ rpc' = [rpc EXCEPT ![c] = "idle"]
    /\ UNCHANGED <<vulnerability_reports, report_id, report_content, findings_added,
                   tracers>>

\* _save_vulnerability_to_disk raises OSError before anything is written
\* (mkdir or opening <id>.md fails); it returns False
R_SaveFail(c) ==
    /\ rpc[c] = "save"
    /\ rpc' = [rpc EXCEPT ![c] = "idle"]
    /\ UNCHANGED <<vulnerability_reports, vuln_files, vuln_csv, report_id,
                   report_content, findings_added, tracers, overwritten>>

\* _save_vulnerability_to_disk writes <id>.md, then opening or writing
\* vulnerabilities.csv raises OSError; it returns False
R_SaveFileOnly(c) ==
    /\ rpc[c] = "save"
    /\ vuln_files' = WriteFile(vuln_files, report_id[c], report_content[c])
    /\ overwritten' = (overwritten \/ \E f \in vuln_files : f[1] = report_id[c])
    /\ rpc' = [rpc EXCEPT ![c] = "idle"]
    /\ UNCHANGED <<vulnerability_reports, vuln_csv, report_id, report_content,
                   findings_added, tracers>>

\* the files of the reports of a list written one after the other (a later
\* report with the same id replaces the file of an earlier one)
RECURSIVE WriteAll(_, _, _)
WriteAll(files, reports, i) ==
    IF i > Len(reports) THEN files
    ELSE WriteAll(WriteFile(files, reports[i].id, reports[i].content), reports, i + 1)

\* Tracer.save_run_data with a non-empty report list: every report's file is
\* rewritten and vulnerabilities.csv is replaced (mode "w") by the rows of the
\* reports held in memory
save_run_data ==
    /\ \A c \in Reporters : rpc[c] = "idle"
    /\ vulnerability_reports # << >>
    /\ vuln_files' = WriteAll(vuln_files, vulnerability_reports, 1)
    /\ vuln_csv' = Ids(vulnerability_reports)
    /\ UNCHANGED <<vulnerability_reports, rpc, report_id, report_content,
                   findings_added, tracers, overwritten>>

\* Tracer.__init__ for a run name whose directory exists (get_run_dir uses
\* mkdir(exist_ok=True)): the new tracer starts with an empty report list
Tracer_init ==
    /\ \A c \in Reporters : rpc[c] = "idle"
    /\ tracers < MaxTracers
    /\ tracers' = tracers + 1
    /\ vulnerability_reports' = << >>
    /\ UNCHANGED <<vuln_files, vuln_csv, rpc, report_id, report_content,
                   findings_added, overwritten>>

(***************************************************************************)
(*                             RunPlan                                     *)
(***************************************************************************)

\* Bounds of the run-plan model.
MaxTasks == 3              \* tasks added to the plan
MaxPhases == 1             \* phases added to the plan

\* TaskStatus (BLOCKED is never assigned by RunPlan)
T_PENDING == "pending"
T_IN_PROGRESS == "in_progress"
T_COMPLETED == "completed"
T_FAILED == "failed"
T_SKIPPED == "skipped"

\* PhaseStatus
P_PENDING == "pending"
P_IN_PROGRESS == "in_progress"
P_COMPLETED == "completed"
P_PARTIALLY_COMPLETED == "partially_completed"

(* A task's id "task_<n>" and a phase's id "phase_<n>" are modelled by the     *)
(* number n, their position in RunPlan.tasks and RunPlan.phases; None (no id)  *)
(* is modelled by 0 for phase_id and current_task_id.                          *)
NoId == 0

PlanInit ==
    /\ tasks = << >>
    /\ phases = << >>
    /\ current_task_id = NoId
    /\ current_phase_id = NoId
    /\ is_paused = FALSE
    /\ plan_file = "absent"
    /\ saving = FALSE

\* RunPlan.get_tasks_by_phase, as the positions of the tasks
get_tasks_by_phase(ts, phase_id) ==
    {i \in 1..Len(ts) : ts[i].phase_id = phase_id}

\* RunPlan._update_phase_status: the phase list after the update, given the
\* task list ts
update_phase_status(ts, phase_id) ==
    IF phase_id = NoId \/ phase_id > Len(phases) THEN phases
    ELSE LET mine == get_tasks_by_phase(ts, phase_id)
             all_completed == \A i \in mine : ts[i].status = T_COMPLETED
             any_failed == \E i \in mine : ts[i].status = T_FAILED
             any_in_progress == \E i \in mine : ts[i].status = T_IN_PROGRESS
             all_done == \A i \in mine :
                            ts[i].status \in {T_COMPLETED, T_FAILED, T_SKIPPED}
         IN IF mine = {} THEN phases
            ELSE IF all_completed
                 THEN [phases EXCEPT ![phase_id].status = P_COMPLETED]
            ELSE IF any_failed /\ all_done
                 THEN [phases EXCEPT ![phase_id].status = P_PARTIALLY_COMPLETED]
            ELSE IF any_in_progress
                 THEN [phases EXCEPT ![phase_id].status = P_IN_PROGRESS]
            ELSE phases

\* RunPlan.get_next_task: the first pending task, in list order, whose
\* dependencies are all in completed_ids; NoId when there is none
get_next_task ==
    LET completed_ids == {i \in 1..Len(tasks) : tasks[i].status = T_COMPLETED}
        ready == {i \in 1..Len(tasks) : /\ tasks[i].status = T_PENDING
                                        /\ tasks[i].depends_on \subseteq completed_ids}
    IN IF ready = {} THEN NoId
       ELSE CHOOSE i \in ready : \A j \in ready : i <= j

\* RunPlan.add_phase
add_phase ==
    /\ Len(phases) < MaxPhases
    /\ phases' = Append(phases, [status |-> P_PENDING])
    /\ UNCHANGED <<tasks, current_task_id, current_phase_id>>

\* RunPlan.add_task(phase_id, depends_on): the phase is none or an existing
\* one, the dependencies are tasks already in the plan
add_task ==
    /\ Len(tasks) < MaxTasks
    /\ \E phase_id \in 0..Len(phases), depends_on \in SUBSET (1..Len(tasks)) :
          tasks' = Append(tasks, [status |-> T_PENDING, phase_id |-> phase_id,
                                  depends_on |-> depends_on])
    /\ UNCHANGED <<phases, current_task_id, current_phase_id>>

\* RunPlan.start_task(task_id) for an existing task
start_task ==
    \E task_id \in 1..Len(tasks) :
        LET phase_id == tasks[task_id].phase_id
            starts_phase == /\ phase_id # NoId
                            /\ phase_id <= Len(phases)
                            /\ phases[phase_id].status = P_PENDING
        IN /\ tasks' = [tasks EXCEPT ![task_id].status = T_IN_PROGRESS]
           /\ current_task_id' = task_id
           /\ phases' = IF starts_phase
                        THEN [phases EXCEPT ![phase_id].status = P_IN_PROGRESS]
                        ELSE phases
           /\ current_phase_id' = IF starts_phase THEN phase_id ELSE current_phase_id

\* the tail shared by complete_task and fail_task: status is set, the current
\* task is cleared when it is this task, the phase status is updated
FinishTask(task_id, new_status) ==
    LET ts == [tasks EXCEPT ![task_id].status = new_status]
    IN /\ tasks' = ts
       /\ current_task_id' = IF current_task_id = task_id THEN NoId
                             ELSE current_task_id
       /\ phases' = update_phase_status(ts, tasks[task_id].phase_id)
       /\ UNCHANGED current_phase_id

\* RunPlan.complete_task(task_id) for an existing task
complete_task ==
    \E task_id \in 1..Len(tasks) : FinishTask(task_id, T_COMPLETED)

\* RunPlan.fail_task(task_id, error) for an existing task
fail_task ==
    \E task_id \in 1..Len(tasks) : FinishTask(task_id, T_FAILED)

\* RunPlan.skip_task(task_id) for an existing task: current_task_id is kept
skip_task ==
    \E task_id \in 1..Len(tasks) :
        LET ts == [tasks EXCEPT ![task_id].status = T_SKIPPED]
        IN /\ tasks' = ts
           /\ phases' = update_phase_status(ts, tasks[task_id].phase_id)
           /\ UNCHANGED <<current_task_id, current_phase_id>>

(* run_plan.json is followed by how its content relates to the plan in      *)
(* memory: "absent" (never written), "partial" (opened with mode "w", which    *)
(* truncates it, and not completely written), "current" (the complete          *)
(* to_dict() of the plan as it is now) or "stale" (the complete to_dict() of   *)
(* an earlier plan: every operation changes updated_at at least).              *)

\* what an operation that does not call save leaves on disk
FileAfterOperation ==
    IF plan_file = "current" THEN "stale" ELSE plan_file

\* a plan operation runs between two save calls of the single owner of the
\* plan; it ends with _update_timestamp and does not touch the file
Unsaved ==
    /\ ~saving
    /\ plan_file' = FileAfterOperation
    /\ UNCHANGED saving

\* RunPlan.pause
pause ==
    /\ is_paused' = TRUE
    /\ UNCHANGED planVars

\* RunPlan.resume
resume ==
    /\ is_paused' = FALSE
    /\ UNCHANGED planVars

\* RunPlan.save: plan_file.open("w") creates or truncates run_plan.json
save_open ==
    /\ ~saving
    /\ saving' = TRUE
    /\ plan_file' = "partial"
    /\ UNCHANGED <<planVars, is_paused>>

\* RunPlan.save: json.dump has written the whole plan and the file is closed
save_written ==
    /\ saving
    /\ saving' = FALSE
    /\ plan_file' = "current"
    /\ UNCHANGED <<planVars, is_paused>>

\* RunPlan.save: json.dump raises (OSError on write, TypeError on a value that
\* is not serializable); the exception leaves save with the file cut short
save_fails ==
    /\ saving
    /\ saving' = FALSE
    /\ plan_file' = "partial"
    /\ UNCHANGED <<planVars, is_paused>>

(***************************************************************************)
(*          tool server: execute_tool and the worker of one agent          *)
(***************************************************************************)

\* Bounds of the worker model.
MaxCalls == 6              \* execute_tool calls for the agent in one behaviour
MaxWorkers == 2            \* worker processes created for the agent

\* agent_worker's max_consecutive_errors
max_consecutive_errors == 5

\* execute_tool calls that are under way at the same time for the agent
XCallers == {"x1", "x2"}

\* the response of the worker to request r: {"result": ...} or {"error": ...}
Response(r, kind) == [for |-> r, kind |-> kind]

\* the second message of a terminating worker; it answers no request
Terminating == [for |-> 0, kind |-> "terminating"]

WorkerInit ==
    /\ worker = "none"
    /\ created = 0
    /\ consecutive_errors = 0
    /\ busy = 0
    /\ request_q = [g \in 1..MaxWorkers |-> << >>]
    /\ response_q = [g \in 1..MaxWorkers |-> << >>]
    /\ xpc = [c \in XCallers |-> "idle"]
    /\ my_queues = [c \in XCallers |-> 0]
    /\ my_request = [c \in XCallers |-> 0]
    /\ got = [c \in XCallers |-> "none"]
    /\ calls = 0
    /\ catchall_run = 0

\* execute_tool up to its await: ensure_agent_process returns the queues of the
\* registered process when process.is_alive(), else (no process, or a dead
\* one, which is cleaned up) those of a new process; the request is put
X_Call(c) ==
    /\ xpc[c] = "idle"
    /\ calls < MaxCalls
    /\ LET restart == worker \in {"none", "dead"}
           g == IF restart THEN created + 1 ELSE created
       IN /\ g <= MaxWorkers
          /\ created' = g
          /\ worker' = IF restart THEN "alive" ELSE worker
          /\ consecutive_errors' = IF restart THEN 0 ELSE consecutive_errors
          /\ catchall_run' = IF restart THEN 0 ELSE catchall_run
          /\ busy' = IF restart THEN 0 ELSE busy
          /\ request_q' = [request_q EXCEPT ![g] = Append(@, calls + 1)]
          /\ my_queues' = [my_queues EXCEPT ![c] = g]
    /\ calls' = calls + 1
    /\ my_request' = [my_request EXCEPT ![c] = calls + 1]
    /\ xpc' = [xpc EXCEPT ![c] = "waiting"]
    /\ UNCHANGED <<response_q, got>>

\* execute_tool: response_queue.get returns the next message of the queue
X_Receive(c) ==
    /\ xpc[c] = "waiting"
    /\ response_q[my_queues[c]] # << >>
    /\ got' = [got EXCEPT ![c] = Head(response_q[my_queues[c]])]
    /\ response_q' = [response_q EXCEPT ![my_queues[c]] = Tail(@)]
    /\ xpc' = [xpc EXCEPT ![c] = "idle"]
    /\ UNCHANGED <<worker, created, consecutive_errors, busy, request_q, my_queues,
                   my_request, calls, catchall_run>>

\* execute_tool: response_queue.get raises Empty after RESPONSE_TIMEOUT; the
\* call returns a timeout error, its request stays where it is
X_Timeout(c) ==
    /\ xpc[c] = "waiting"
    /\ response_q[my_queues[c]] = << >>
    /\ got' = [got EXCEPT ![c] = Response(my_request[c], "timeout")]
    /\ xpc' = [xpc EXCEPT ![c] = "idle"]
    /\ UNCHANGED <<worker, created, consecutive_errors, busy, request_q, response_q,
                   my_queues, my_request, calls, catchall_run>>

\* agent_worker: request_queue.get returns a request
W_Take ==
    /\ worker = "alive"
    /\ busy = 0
    /\ request_q[created] # << >>
    /\ busy' = Head(request_q[created])
    /\ request_q' = [request_q EXCEPT ![created] = Tail(@)]
    /\ UNCHANGED <<worker, created, consecutive_errors, response_q, xpc, my_queues,
                   my_request, got, calls, catchall_run>>

\* agent_worker: the tool returns; {"result": result} is put and the count reset
W_Ok ==
    /\ worker = "alive"
    /\ busy # 0
    /\ response_q' = [response_q EXCEPT ![created] = Append(@, Response(busy, "result"))]
    /\ consecutive_errors' = 0
    /\ catchall_run' = 0
    /\ busy' = 0
    /\ UNCHANGED <<worker, created, request_q, xpc, my_queues, my_request, got, calls>>

\* agent_worker: the tool is not found, or the call raises one of the handled
\* exceptions (ArgumentConversionError, ValidationError, RuntimeError,
\* ValueError, ImportError): an error is put, the count is left as it is
W_HandledError ==
    /\ worker = "alive"
    /\ busy # 0
    /\ response_q' = [response_q EXCEPT ![created] = Append(@, Response(busy, "error"))]
    /\ busy' = 0
    /\ UNCHANGED <<worker, created, consecutive_errors, request_q, xpc, my_queues,
                   my_request, got, calls, catchall_run>>

\* mutation of StopsAt: the worker goes on after the fifth failure in a row
StopsAt_Never(n) == FALSE

\* agent_worker: does the worker break out of its loop with the count at n
StopsAt(n) == n >= max_consecutive_errors

\* agent_worker, except Exception: the count grows, an error is put; at
\* max_consecutive_errors a second message is put and the loop is left
W_CatchAll ==
    /\ worker = "alive"
    /\ busy # 0
    /\ consecutive_errors' = consecutive_errors + 1
    /\ catchall_run' = catchall_run + 1
    /\ response_q' =
          [response_q EXCEPT ![created] =
              IF StopsAt(consecutive_errors + 1)
              THEN Append(Append(@, Response(busy, "error")), Terminating)
              ELSE Append(@, Response(busy, "error"))]
    /\ worker' = IF StopsAt(consecutive_errors + 1) THEN "exiting" ELSE "alive"
    /\ busy' = 0
    /\ UNCHANGED <<created, request_q, xpc, my_queues, my_request, got, calls>>

\* the worker process, having left agent_worker, exits: is_alive() is False
W_Exit ==
    /\ worker = "exiting"
    /\ worker' = "dead"
    /\ UNCHANGED <<created, consecutive_errors, busy, request_q, response_q, xpc,
                   my_queues, my_request, got, calls, catchall_run>>

(***************************************************************************)
(*                          ResponseCache                                  *)
(***************************************************************************)

\* Bounds of the cache model.
MaxCacheTime == 3          \* the cache clock runs 0..MaxCacheTime
MaxCacheOps == 5           \* get, put, invalidate and clear calls in one behaviour

\* Configuration of the modelled cache (defaults 100 and 3600 s), enabled.
max_size == 2
ttl_seconds == 1

\* the keys _generate_key yields for the requests that occur (a digest of model
\* and messages; distinct requests are taken to have distinct digests)
Keys == {"k1", "k2", "k3", "k4"}

\* a sequence without the element k
Without(seq, k) == SelectSeq(seq, LAMBDA x : x # k)

\* OrderedDict.move_to_end(key)
move_to_end(seq, k) == Append(Without(seq, k), k)

\* _cache[key] = entry: a stored key keeps its place, a new one goes to the end
SetItem(seq, k) == IF k \in Range(seq) THEN seq ELSE Append(seq, k)

CacheInit ==
    /\ cache = << >>
    /\ created_at = [k \in Keys |-> None]
    /\ stats = [hits |-> 0, misses |-> 0, evictions |-> 0]
    /\ cache_now = 0
    /\ cache_ops = 0
    /\ cache_op = [name |-> "none", key |-> "none", result |-> "none"]
    /\ recency = << >>

\* history: one more cache operation, of this name, on this key, with this result
CacheHist(name, k, result) ==
    /\ cache_ops < MaxCacheOps
    /\ cache_ops' = cache_ops + 1
    /\ cache_op' = [name |-> name, key |-> k, result |-> result]

\* mutation of Expired: entries never expire
Expired_Never(k) == FALSE

\* ResponseCache.get: time.time() - entry.created_at > self.ttl_seconds
Expired(k) == cache_now - created_at[k] > ttl_seconds

\* mutation of AfterHit: a hit leaves the order alone
AfterHit_Kept(seq, k) == seq

\* ResponseCache.get: the order of the keys after a hit on k
AfterHit(seq, k) == move_to_end(seq, k)

\* ResponseCache.get(key), under the lock
cache_get ==
    \E k \in Keys :
        IF k \notin Range(cache)
        THEN /\ CacheHist("get", k, "miss")
             /\ stats' = [stats EXCEPT !.misses = @ + 1]
             /\ UNCHANGED <<cache, created_at, cache_now, recency>>
        ELSE IF Expired(k)
        THEN /\ CacheHist("get", k, "expired")
             /\ cache' = Without(cache, k)
             /\ created_at' = [created_at EXCEPT ![k] = None]
             /\ stats' = [stats EXCEPT !.misses = @ + 1, !.evictions = @ + 1]
             /\ recency' = Without(recency, k)
             /\ UNCHANGED cache_now
        ELSE /\ CacheHist("get", k, "hit")
             /\ cache' = AfterHit(cache, k)
             /\ stats' = [stats EXCEPT !.hits = @ + 1]
             /\ recency' = move_to_end(recency, k)
             /\ UNCHANGED <<created_at, cache_now>>

\* mutation of AtCapacity: the loop runs only when the cache is over max_size
AtCapacity_Over(n) == n > max_size

\* ResponseCache.put: the condition of the eviction loop
AtCapacity(n) == n >= max_size

\* ResponseCache.put: the eviction loop, "while len(self._cache) >= max_size:
\* delete next(iter(self._cache))"; the keys left and the number deleted
RECURSIVE Evict(_, _)
Evict(seq, n) ==
    IF AtCapacity(Len(seq)) /\ seq # << >> THEN Evict(Tail(seq), n + 1)
    ELSE [left |-> seq, evicted |-> n]

\* ResponseCache.put(key, response), under the lock
cache_put ==
    \E k \in Keys :
        LET e == Evict(cache, 0)
        IN /\ CacheHist("put", k, "none")
           /\ cache' = SetItem(e.left, k)
           /\ created_at' = [x \in Keys |-> IF x = k THEN cache_now
                                            ELSE IF x \in Range(e.left) THEN created_at[x]
                                            ELSE None]
           /\ stats' = [stats EXCEPT !.evictions = @ + e.evicted]
           /\ recency' = SetItem(SelectSeq(recency, LAMBDA x : x \in Range(e.left)), k)
           /\ UNCHANGED cache_now

\* ResponseCache.invalidate: every entry is removed, the counters are kept
cache_invalidate ==
    /\ CacheHist("invalidate", "none", "none")
    /\ cache' = << >>
    /\ created_at' = [k \in Keys |-> None]
    /\ recency' = << >>
    /\ UNCHANGED <<stats, cache_now>>

\* ResponseCache.clear: every entry is removed and the counters are zeroed
cache_clear ==
    /\ CacheHist("clear", "none", "none")
    /\ cache' = << >>
    /\ created_at' = [k \in Keys |-> None]
    /\ stats' = [hits |-> 0, misses |-> 0, evictions |-> 0]
    /\ recency' = << >>
    /\ UNCHANGED cache_now

\* time.time() advances
CacheTick ==
    /\ cache_now < MaxCacheTime
    /\ cache_now' = cache_now + 1
    /\ UNCHANGED <<cache, created_at, stats, cache_ops, cache_op, recency>>

(***************************************************************************)
(*                    Tool registry                                        *)
(***************************************************************************)

\* Bounds of the registry model.
MaxRegistrations == 3      \* length of the list tools

\* f.__name__ of the registered functions
ToolNames == {"t1", "t2"}

\* distinct function objects that carry the same __name__
Handlers == {"f1", "f2"}

RegistryInit ==
    /\ tools = << >>
    /\ tools_by_name = [n \in ToolNames |-> "none"]

\* register_tool(sandbox_execution=...)(f): the dict is appended to tools and
\* _tools_by_name[f.__name__] is assigned; neither statement looks for an
\* earlier registration of the name
register_tool ==
    \E n \in ToolNames, f \in Handlers, sandbox_execution \in BOOLEAN :
        /\ Len(tools) < MaxRegistrations
        /\ tools' = Append(tools, [name |-> n, function |-> f,
                                   sandbox_execution |-> sandbox_execution])
        /\ tools_by_name' = [tools_by_name EXCEPT ![n] = f]

\* clear_registry
clear_registry ==
    /\ tools' = << >>
    /\ tools_by_name' = [n \in ToolNames |-> "none"]

\* get_tool_by_name: _tools_by_name.get(name)
get_tool_by_name(n) == tools_by_name[n]

\* should_execute_in_sandbox: the flag of the first dict of the list with that
\* name, True when there is none
should_execute_in_sandbox(n) ==
    LET found == {i \in 1..Len(tools) : tools[i].name = n}
    IN IF found = {} THEN TRUE
       ELSE tools[CHOOSE i \in found : \A j \in found : i <= j].sandbox_execution

(***************************************************************************)
(*                    StateReconciler                                      *)
(***************************************************************************)

\* Bounds of the reconciler model.
MaxMessages == 7           \* length of AgentState.messages
PrefixLen == 2             \* characters compared by the loop check (100 in the code)
stale_seconds == 2         \* waiting time reported as stale (300 in the code)

\* message contents, as sequences of characters: the first two agree on their
\* first PrefixLen characters, the third does not
Contents == {<<"a", "a", "a">>, <<"a", "a", "b">>, <<"b", "a", "a">>}

\* the messages add_message is called with
Messages ==
    {[role |-> "assistant", content |-> c] : c \in Contents}
        \cup {[role |-> "user", content |-> <<"a", "a", "a">>]}

ReconcilerInit ==
    /\ messages = << >>
    /\ issues = {}

\* AgentState.add_message(role, content)
add_message ==
    \E m \in Messages :
        /\ Len(messages) < MaxMessages
        /\ messages' = Append(messages, m)
        /\ UNCHANGED <<issues, agentVars>>

\* str(content)[:100]
Prefix(content) == SubSeq(content, 1, Min(Len(content), PrefixLen))

\* self.state.messages[-6:]
Last6(msgs) == SubSeq(msgs, IF Len(msgs) > 6 THEN Len(msgs) - 5 ELSE 1, Len(msgs))

\* check_for_issues, the loop check: with at least 6 messages, the assistant
\* messages among the last 6 are at least 3 and the set of their prefixes has
\* one element
loop_detected(msgs) ==
    /\ Len(msgs) >= 6
    /\ LET assistant_messages == SelectSeq(Last6(msgs), LAMBDA m : m.role = "assistant")
           contents == {Prefix(assistant_messages[i].content) :
                           i \in 1..Len(assistant_messages)}
       IN Len(assistant_messages) >= 3 /\ Cardinality(contents) = 1

ReconciliationIssue(type, path, suggested, fixable) ==
    [issue_type |-> type, field_path |-> path, suggested_value |-> suggested,
     auto_fixable |-> fixable]

\* mutation of IterationIssue: the issue is reported as not auto-fixable
IterationIssue_NotFixable ==
    ReconciliationIssue("invalid_value", "iteration", max_iterations, FALSE)

\* check_for_issues: the issue appended when iteration > max_iterations
IterationIssue ==
    ReconciliationIssue("invalid_value", "iteration", max_iterations, TRUE)

\* the list check_for_issues returns on the current state (the rate-limit
\* check reads AgentState.errors, which the model does not hold; its issue is
\* not auto-fixable)
Issues ==
    (IF status = WAITING_FOR_RECOVERY /\ ~is_waiting_for_input
     THEN {ReconciliationIssue("state_inconsistency", "llm_failed", None, TRUE)}
     ELSE {})
    \cup (IF iteration > max_iterations THEN {IterationIssue} ELSE {})
    \cup (IF loop_detected(messages)
          THEN {ReconciliationIssue("loop_detected", "messages", None, FALSE)}
          ELSE {})
    \cup (IF /\ is_waiting_for_input
             /\ waiting_start_time # None
             /\ agent_now - waiting_start_time > stale_seconds
             /\ status # WAITING_FOR_RECOVERY
          THEN {ReconciliationIssue("stale_data", "waiting_for_input", None, FALSE)}
          ELSE {})

\* StateReconciler.check_for_issues
check_for_issues ==
    /\ issues' = Issues
    /\ AgentHist("check_for_issues")
    /\ UNCHANGED <<status, waiting_start_time, iteration, failure_reason, final_result,
                   task, consecutive_empty_responses, agent_now, messages>>

\* StateReconciler.auto_fix_issues: every auto-fixable issue with a suggested
\* value becomes a "set" patch, which apply_patch performs with setattr; the
\* patch of llm_failed, a property without setter, is not applied
auto_fix_issues ==
    LET patches == {i \in Issues : i.auto_fixable /\ i.field_path = "iteration"}
    IN /\ issues' = Issues
       /\ iteration' = IF patches = {} THEN iteration
                        ELSE (CHOOSE i \in patches : TRUE).suggested_value
       /\ AgentHist("auto_fix_issues")
       /\ UNCHANGED <<status, waiting_start_time, failure_reason, final_result, task,
                      consecutive_empty_responses, agent_now, messages>>

(***************************************************************************)
(*                    Notes                                                *)
(***************************************************************************)

\* Bounds of the notes model.
MaxNoteCalls == 3          \* note tool calls in one behaviour

\* str(uuid.uuid4())[:5] of the notes created
NoteIds == {"n1", "n2"}

\* an optional argument that was not passed (None)
NotGiven == "not given"

\* str.strip on the strings of the model
strip(str) ==
    CASE str = "  " -> ""
      [] str = "t2 " -> "t2"
      [] str = "c2 " -> "c2"
      [] OTHER -> str

NotesInit ==
    /\ notes_storage = << >>
    /\ notes_file = << >>
    /\ note_calls = 0
    /\ note_op = "none"
    /\ note_result = "none"

\* history bookkeeping of the note tools
NoteHist(op, success) ==
    /\ note_calls < MaxNoteCalls
    /\ note_calls' = note_calls + 1
    /\ note_op' = op
    /\ note_result' = IF success THEN "success" ELSE "failure"

\* _save_notes_to_disk: the whole of _notes_storage is written to a temporary
\* file that replaces notes.json, or an OSError is caught and False returned
save_notes_to_disk(storage, persisted) ==
    notes_file' = IF persisted THEN storage ELSE notes_file

\* create_note with valid arguments
create_note ==
    \E note_id \in NoteIds \ DOMAIN notes_storage, persisted \in BOOLEAN :
        LET note == [title |-> "t1", content |-> "c1", tags |-> "g1",
                     priority |-> "normal", updated_at |-> note_calls]
            storage == [n \in DOMAIN notes_storage \cup {note_id} |->
                           IF n = note_id THEN note ELSE notes_storage[n]]
        IN /\ notes_storage' = storage
           /\ save_notes_to_disk(storage, persisted)
           /\ NoteHist("create_note", TRUE)

\* update_note(note_id, title, content, tags, priority): the fields of the
\* stored dict are assigned one after the other, each right after its own
\* validation; a failed validation returns at once
update_note ==
    \E note_id \in NoteIds,
       title \in {NotGiven, "  ", "t2 "},
       content \in {NotGiven, "  ", "c2 "},
       tags \in {NotGiven, "g2"},
       priority \in {NotGiven, "high", "critical"},
       persisted \in BOOLEAN :
        IF note_id \notin DOMAIN notes_storage
        THEN /\ NoteHist("update_note", FALSE)
             /\ UNCHANGED <<notes_storage, notes_file>>
        ELSE
          LET note == notes_storage[note_id]
              title_ok == title = NotGiven \/ strip(title) # ""
              n1 == IF title # NotGiven /\ title_ok
                    THEN [note EXCEPT !.title = strip(title)] ELSE note
              content_ok == content = NotGiven \/ strip(content) # ""
              n2 == IF content # NotGiven /\ content_ok
                    THEN [n1 EXCEPT !.content = strip(content)] ELSE n1
              n3 == IF tags # NotGiven THEN [n2 EXCEPT !.tags = tags] ELSE n2
              valid_priorities == {"low", "normal", "high", "urgent"}
              priority_ok == priority = NotGiven \/ priority \in valid_priorities
              n4 == IF priority # NotGiven /\ priority_ok
                    THEN [n3 EXCEPT !.priority = priority] ELSE n3
              n5 == [n4 EXCEPT !.updated_at = note_calls]
              put(n) == [notes_storage EXCEPT ![note_id] = n]
          IN IF ~title_ok
             THEN /\ NoteHist("update_note", FALSE)
                  /\ UNCHANGED <<notes_storage, notes_file>>
             ELSE IF ~content_ok
             THEN /\ NoteHist("update_note", FALSE)
                  /\ notes_storage' = put(n1)
                  /\ UNCHANGED notes_file
             ELSE IF ~priority_ok
             THEN /\ NoteHist("update_note", FALSE)
                  /\ notes_storage' = put(n3)
                  /\ UNCHANGED notes_file
             ELSE /\ NoteHist("update_note", TRUE)
                  /\ notes_storage' = put(n5)
                  /\ save_notes_to_disk(put(n5), persisted)

(***************************************************************************)
(*                    The agent loop                                       *)
(***************************************************************************)

\* One iteration of the loop ends with increment_iteration; the loop starts an
\* iteration only when should_stop is false.
Loop_Iterate ==
    /\ status = RUNNING
    /\ ~should_stop
    /\ increment_iteration

\* The agent emits the finish action.
Loop_Finish ==
    /\ status = RUNNING
    /\ ~should_stop
    /\ set_completed

\* The agent emits the wait action, or the thinker client fails.
Loop_Wait ==
    /\ status = RUNNING
    /\ ~should_stop
    /\ enter_waiting_state

\* send_message to an agent in a waiting status
Loop_Message ==
    /\ is_waiting_for_input
    /\ resume_from_waiting

\* The waiting agent is checked with has_waiting_timeout.
Loop_WaitTimeout ==
    /\ has_waiting_timeout
    /\ set_failed
    /\ failure_reason' = "wait_timeout"

\* The loop exits because should_stop holds for an agent that is not terminal.
Loop_MaxIterations ==
    /\ status \notin TerminalStatus
    /\ should_stop
    /\ set_failed
    /\ failure_reason' = "max_iterations"

(***************************************************************************)
(*                          Specifications                                 *)
(***************************************************************************)

AgentIdle == UNCHANGED agentVars
BreakerIdle == UNCHANGED <<breakerVars, generateVars, breakerHist>>
QueueIdle == UNCHANGED queueVars
EventsIdle == UNCHANGED <<eventVars, pollVars, exit_pc>>
FindingsIdle == UNCHANGED <<findingVars, call_raised>>
PlanIdle == UNCHANGED <<planVars, planFileVars>>
WorkerIdle == UNCHANGED workerVars
CacheIdle == UNCHANGED cacheVars
RegistryIdle == UNCHANGED registryVars
ReconcilerIdle == UNCHANGED reconcilerVars
NotesIdle == UNCHANGED notesVars

NotAgent == NotesIdle /\ ReconcilerIdle /\ RegistryIdle /\ BreakerIdle /\ QueueIdle /\ EventsIdle /\ FindingsIdle /\ PlanIdle
    /\ WorkerIdle /\ CacheIdle
NotBreaker == NotesIdle /\ ReconcilerIdle /\ RegistryIdle /\ AgentIdle /\ QueueIdle /\ EventsIdle /\ FindingsIdle /\ PlanIdle
    /\ WorkerIdle /\ CacheIdle
NotQueue == NotesIdle /\ ReconcilerIdle /\ RegistryIdle /\ AgentIdle /\ BreakerIdle /\ EventsIdle /\ FindingsIdle /\ PlanIdle
    /\ WorkerIdle /\ CacheIdle
NotEvents == NotesIdle /\ ReconcilerIdle /\ RegistryIdle /\ AgentIdle /\ BreakerIdle /\ QueueIdle /\ FindingsIdle /\ PlanIdle
    /\ WorkerIdle /\ CacheIdle
NotFindings == NotesIdle /\ ReconcilerIdle /\ RegistryIdle /\ AgentIdle /\ BreakerIdle /\ QueueIdle /\ EventsIdle /\ PlanIdle
    /\ WorkerIdle /\ CacheIdle
NotPlan == NotesIdle /\ ReconcilerIdle /\ RegistryIdle /\ AgentIdle /\ BreakerIdle /\ QueueIdle /\ EventsIdle /\ FindingsIdle
    /\ WorkerIdle /\ CacheIdle
NotWorker == NotesIdle /\ ReconcilerIdle /\ RegistryIdle /\ AgentIdle /\ BreakerIdle /\ QueueIdle /\ EventsIdle /\ FindingsIdle
    /\ PlanIdle /\ CacheIdle
NotCache == NotesIdle /\ ReconcilerIdle /\ RegistryIdle /\ AgentIdle /\ BreakerIdle /\ QueueIdle /\ EventsIdle /\ FindingsIdle
    /\ PlanIdle /\ WorkerIdle
NotNotes == AgentIdle /\ ReconcilerIdle /\ RegistryIdle /\ BreakerIdle /\ QueueIdle
    /\ EventsIdle /\ FindingsIdle /\ PlanIdle /\ WorkerIdle /\ CacheIdle
NotReconciler == NotesIdle /\ RegistryIdle /\ BreakerIdle /\ QueueIdle /\ EventsIdle /\ FindingsIdle
    /\ PlanIdle /\ WorkerIdle /\ CacheIdle
NotRegistry == NotesIdle /\ ReconcilerIdle /\ AgentIdle /\ BreakerIdle /\ QueueIdle /\ EventsIdle /\ FindingsIdle
    /\ PlanIdle /\ WorkerIdle /\ CacheIdle

AgentNext ==
    \/ increment_iteration /\ NotAgent
    \/ set_completed /\ NotAgent
    \/ set_failed /\ NotAgent
    \/ request_stop /\ NotAgent
    \/ enter_waiting_state /\ NotAgent
    \/ resume_from_waiting /\ NotAgent
    \/ count_empty_response /\ NotAgent
    \/ AgentTick /\ NotAgent

BreakerNext ==
    \/ \E c \in GCallers : G_Start(c) /\ NotBreaker
    \/ \E c \in GCallers : G_State(c) /\ NotBreaker
    \/ \E c \in GCallers : G_CanExecute(c) /\ NotBreaker
    \/ \E c \in GCallers : G_Track(c) /\ NotBreaker
    \/ \E c \in GCallers : G_CacheHit(c) /\ NotBreaker
    \/ \E c \in GCallers : G_AttemptOk(c) /\ NotBreaker
    \/ \E c \in GCallers : G_AttemptRetryable(c) /\ NotBreaker
    \/ \E c \in GCallers : G_AttemptNonRetryable(c) /\ NotBreaker
    \/ \E c \in GCallers : G_AttemptUnknown(c) /\ NotBreaker
    \/ reset /\ NotBreaker
    \/ BreakerTick /\ NotBreaker

QueueNext ==
    \/ \E c \in QCallers : Q_Start(c) /\ NotQueue
    \/ \E c \in QCallers : Q_AcquireOk(c) /\ NotQueue
    \/ \E c \in QCallers : Q_AcquireTimeout(c) /\ NotQueue
    \/ \E c \in QCallers : Q_SlotWake(c) /\ NotQueue
    \/ \E c \in QCallers : Q_RateLimitWake(c) /\ NotQueue
    \/ \E c \in QCallers : Q_Gate(c) /\ NotQueue
    \/ \E c \in QCallers : Q_Send(c) /\ NotQueue
    \/ \E c \in QCallers : Q_Success(c) /\ NotQueue
    \/ \E c \in QCallers : Q_Failure(c) /\ NotQueue
    \/ \E c \in QCallers : Q_Cancel(c) /\ NotQueue
    \/ QueueTick /\ NotQueue

EventsNext ==
    \/ \E c \in Emitters : E_Create(c) /\ UNCHANGED <<pollVars, exit_pc>> /\ NotEvents
    \/ \E c \in Emitters : E_Append(c) /\ UNCHANGED <<pollVars, exit_pc>> /\ NotEvents
    \/ \E c \in Emitters : E_WriteOk(c) /\ UNCHANGED <<pollVars, exit_pc>> /\ NotEvents
    \/ \E c \in Emitters : E_WriteFail(c) /\ UNCHANGED <<pollVars, exit_pc>> /\ NotEvents
    \/ P_Slice /\ UNCHANGED <<eventVars, exit_pc>> /\ NotEvents
    \/ P_Return /\ UNCHANGED <<eventVars, exit_pc>> /\ NotEvents

\* the end of a run whose agent threads are still emitting events
ExitNext ==
    \/ \E c \in Emitters : E_Create(c) /\ UNCHANGED <<pollVars, exit_pc>> /\ NotEvents
    \/ \E c \in Emitters : E_Append(c) /\ UNCHANGED <<pollVars, exit_pc>> /\ NotEvents
    \/ \E c \in Emitters : E_WriteOk(c) /\ UNCHANGED <<pollVars, exit_pc>> /\ NotEvents
    \/ \E c \in Emitters : E_WriteFail(c) /\ UNCHANGED <<pollVars, exit_pc>> /\ NotEvents
    \/ signal_handler /\ UNCHANGED pollVars /\ NotEvents
    \/ cleanup_on_exit /\ UNCHANGED pollVars /\ NotEvents

FindingsNext ==
    \/ \E c \in Reporters : R_Start(c) /\ NotFindings
    \/ \E c \in Reporters : R_Append(c) /\ UNCHANGED call_raised /\ NotFindings
    \/ \E c \in Reporters : R_AppendCallbackRaises(c) /\ NotFindings
    \/ \E c \in Reporters : R_SaveOk(c) /\ UNCHANGED call_raised /\ NotFindings
    \/ \E c \in Reporters : R_SaveFail(c) /\ UNCHANGED call_raised /\ NotFindings
    \/ \E c \in Reporters : R_SaveFileOnly(c) /\ UNCHANGED call_raised /\ NotFindings
    \/ save_run_data /\ UNCHANGED call_raised /\ NotFindings
    \/ Tracer_init /\ UNCHANGED call_raised /\ NotFindings

PlanNext ==
    \/ add_phase /\ Unsaved /\ UNCHANGED is_paused /\ NotPlan
    \/ add_task /\ Unsaved /\ UNCHANGED is_paused /\ NotPlan
    \/ start_task /\ Unsaved /\ UNCHANGED is_paused /\ NotPlan
    \/ complete_task /\ Unsaved /\ UNCHANGED is_paused /\ NotPlan
    \/ fail_task /\ Unsaved /\ UNCHANGED is_paused /\ NotPlan
    \/ skip_task /\ Unsaved /\ UNCHANGED is_paused /\ NotPlan
    \/ pause /\ Unsaved /\ NotPlan
    \/ resume /\ Unsaved /\ NotPlan
    \/ save_open /\ NotPlan
    \/ save_written /\ NotPlan
    \/ save_fails /\ NotPlan

WorkerNext ==
    \/ \E c \in XCallers : X_Call(c) /\ NotWorker
    \/ \E c \in XCallers : X_Receive(c) /\ NotWorker
    \/ \E c \in XCallers : X_Timeout(c) /\ NotWorker
    \/ W_Take /\ NotWorker
    \/ W_Ok /\ NotWorker
    \/ W_HandledError /\ NotWorker
    \/ W_CatchAll /\ NotWorker
    \/ W_Exit /\ NotWorker

CacheNext ==
    \/ cache_get /\ NotCache
    \/ cache_put /\ NotCache
    \/ cache_invalidate /\ NotCache
    \/ cache_clear /\ NotCache
    \/ CacheTick /\ NotCache

RegistryNext ==
    \/ register_tool /\ NotRegistry
    \/ clear_registry /\ NotRegistry

LoopNext ==
    \/ Loop_Iterate /\ NotAgent
    \/ Loop_Finish /\ NotAgent
    \/ Loop_Wait /\ NotAgent
    \/ Loop_Message /\ NotAgent
    \/ Loop_WaitTimeout /\ NotAgent
    \/ Loop_MaxIterations /\ NotAgent
    \/ request_stop /\ NotAgent
    \/ AgentTick /\ NotAgent

\* the reconciler beside the operations of AgentState
ReconcilerNext ==
    \/ increment_iteration /\ ReconcilerIdle /\ NotReconciler
    \/ set_completed /\ ReconcilerIdle /\ NotReconciler
    \/ set_failed /\ ReconcilerIdle /\ NotReconciler
    \/ request_stop /\ ReconcilerIdle /\ NotReconciler
    \/ enter_waiting_state /\ ReconcilerIdle /\ NotReconciler
    \/ resume_from_waiting /\ ReconcilerIdle /\ NotReconciler
    \/ AgentTick /\ ReconcilerIdle /\ NotReconciler
    \/ check_for_issues /\ NotReconciler
    \/ auto_fix_issues /\ NotReconciler

\* the reconciler's check on a growing message history
MessagesNext ==
    \/ add_message /\ NotReconciler
    \/ check_for_issues /\ NotReconciler

NotesNext ==
    \/ create_note /\ NotNotes
    \/ update_note /\ NotNotes

Init ==
    /\ AgentInit /\ BreakerInit /\ QueueInit /\ EventsInit /\ FindingsInit /\ PlanInit
    /\ WorkerInit /\ CacheInit /\ PollInit /\ RegistryInit /\ ExitInit
    /\ ReconcilerInit /\ NotesInit

SpecAgent == Init /\ [][AgentNext]_vars

SpecBreaker == Init /\ [][BreakerNext]_vars

SpecQueue == Init /\ [][QueueNext]_vars

SpecEvents == Init /\ [][EventsNext]_vars

SpecFindings == Init /\ [][FindingsNext]_vars

SpecPlan == Init /\ [][PlanNext]_vars

SpecWorker == Init /\ [][WorkerNext]_vars

SpecCache == Init /\ [][CacheNext]_vars

SpecRegistry == Init /\ [][RegistryNext]_vars

SpecExit == Init /\ [][ExitNext]_vars

SpecReconciler == Init /\ [][ReconcilerNext]_vars

SpecMessages == Init /\ [][MessagesNext]_vars

SpecNotes == Init /\ [][NotesNext]_vars

SpecLoop == Init /\ [][LoopNext]_vars

Spec == SpecAgent

(***************************************************************************)
(*                    Properties of AgentState                             *)
(***************************************************************************)

\* C1: in every state reachable through enter_waiting_state, resume_from_waiting,
\* set_completed, set_failed and request_stop, waiting_start_time is non-null
\* if and only if status is waiting_for_message or waiting_for_recovery.
C1_WaitingStartIffWaiting ==
    (waiting_start_time # None) <=> (status \in WaitingStatus)

\* C1 witness: a waiting agent (timestamp set) has just been completed.
C1_Witness ==
    /\ prev_status \in WaitingStatus
    /\ agent_op = "set_completed"
    /\ status = COMPLETED
    /\ waiting_start_time = None

\* C2: completed, failed and stopped are terminal: once one of them is
\* reached, no later operation moves the agent to a different status.
C2_TerminalIsFinal ==
    [][(status \in TerminalStatus) => (status' = status)]_vars

\* C3: for every agent, at all times, iteration <= max_iterations.
C3_IterationBounded ==
    iteration <= max_iterations

(***************************************************************************)
(*           Properties of the circuit breaker and generate                *)
(***************************************************************************)

\* C4: after failure_threshold consecutive failures were recorded, no request
\* is sent to the provider within recovery_timeout, whether it is the first
\* attempt of a generate call or a retry attempt of a running one.
C4_NoSendWhileOpen ==
    open_send = "none"

\* C5: while the breaker is half-open, at most half_open_max_calls callers are
\* admitted by raise_if_open, for every interleaving of concurrent callers.
C5_HalfOpenAdmitsAtMostMax ==
    ho_admitted <= half_open_max_calls

\* C6: from closed the breaker becomes open exactly when failure_threshold
\* failures have been recorded with no success between them; a success recorded
\* while closed resets the consecutive-failure count to zero.
C6_OpensExactlyAtThreshold ==
    [][cb_state = CLOSED =>
        /\ consec < failure_threshold
        /\ (cb_state' = OPEN) <=> (cb_op' = "record_failure" /\ consec' = failure_threshold)
        /\ (cb_op' = "record_success") => (failure_count' = 0 /\ cb_state' = CLOSED)
      ]_vars

\* C6 witness: the breaker has just opened on the threshold-th consecutive
\* failure, after a success had reset an earlier failure of the same caller.
C6_Witness ==
    /\ cb_prev = CLOSED
    /\ cb_state = OPEN
    /\ cb_op = "record_failure"
    /\ consec = failure_threshold
    /\ \E c \in GCallers : fails_recorded[c] > failure_count

\* C7 (as claimed): from half-open the first recorded success closes the
\* breaker, the first recorded failure reopens it and restarts the recovery
\* timeout, and no other transition leaves half-open.
C7_HalfOpenLeavesOnlyByOutcome ==
    [][cb_state = HALF_OPEN =>
        /\ (cb_op' = "record_success") => (cb_state' = CLOSED)
        /\ (cb_op' = "record_failure") => (cb_state' = OPEN /\ last_failure_time' = cb_now)
        /\ (cb_state' # HALF_OPEN) => (cb_op' \in {"record_success", "record_failure"})
      ]_vars

\* C7 (amended): from half-open the first recorded success closes the breaker,
\* the first recorded failure reopens it and restarts the recovery timeout, and
\* the only other transition that leaves half-open is a manual reset(), which
\* closes the breaker.
C7_HalfOpenLeavesByOutcomeOrReset ==
    [][cb_state = HALF_OPEN =>
        /\ (cb_op' = "record_success") => (cb_state' = CLOSED)
        /\ (cb_op' = "record_failure") => (cb_state' = OPEN /\ last_failure_time' = cb_now)
        /\ (cb_state' # HALF_OPEN) =>
              \/ cb_op' \in {"record_success", "record_failure"}
              \/ cb_op' = "reset" /\ cb_state' = CLOSED
      ]_vars

\* C7 witness: a failure recorded while half-open has just reopened the breaker.
C7_Witness ==
    /\ cb_prev = HALF_OPEN
    /\ cb_state = OPEN
    /\ cb_op = "record_failure"
    /\ last_failure_time = cb_now

\* C10: within one generate call whose every attempt fails with a retryable
\* error, the request is sent to the provider at most 3 times in total, and each
\* failed attempt is recorded as one failure in the circuit breaker.
C10_AtMostThreeSends ==
    \A c \in GCallers :
        all_retryable[c] =>
            /\ sends[c] <= 3
            /\ (gpc[c] = "failed") => (fails_recorded[c] = sends[c])

\* C11: when an attempt fails with a non-retryable error, generate fails at
\* once without a further attempt and the breaker's state and failure count
\* are left unchanged.
C11_NonRetryableLeavesBreaker ==
    [][(cb_op' = "non_retryable") =>
        /\ cb_state' = cb_state
        /\ failure_count' = failure_count
        /\ half_open_calls' = half_open_calls
        /\ \E c \in GCallers : /\ gpc[c] = "request"
                                /\ gpc'[c] = "failed"
                                /\ attempt'[c] = attempt[c]
      ]_vars

\* C11 witness: a call has just failed on a non-retryable error while the
\* closed breaker holds an earlier recorded failure, which it keeps.
C11_Witness ==
    /\ cb_op = "non_retryable"
    /\ cb_state = CLOSED
    /\ cb_prev = CLOSED
    /\ failure_count = failure_threshold - 1
    /\ \E c \in GCallers : gpc[c] = "failed" /\ attempt[c] = 0

\* C12: a request whose fingerprint is in the response cache is never refused
\* by the circuit breaker: the cache is probed first, also while it is open.
C12_CachedNeverRejected ==
    \A c \in GCallers : cached[c] => gpc[c] # "rejected"

(***************************************************************************)
(*                 Properties of the request queue                         *)
(***************************************************************************)

\* C8: at any time the number of requests between acquiring and releasing a
\* queue slot is at most max_concurrent, for every interleaving of make_request
\* callers, including callers that fail or are cancelled while waiting for a slot.
C8_InFlightBounded ==
    Cardinality({c \in QCallers : holds_slot[c]}) <= max_concurrent

\* C9 (as claimed): for any two requests released to the provider through the
\* queue, their release times differ by at least delay_between_requests.
C9_ReleaseTimesSpaced ==
    \A i, j \in 1..Len(releases) :
        i < j => releases[j] - releases[i] >= delay_between_requests

\* C9 (amended): for any two requests that passed the spacing gate, the release
\* times the gate reserved for them (now + sleep_needed, the successive values
\* of _last_request_time) differ by at least delay_between_requests, and no
\* request is sent before the time reserved for it; the send itself may come
\* later than the reserved time.
C9_ReservedTimesSpaced ==
    /\ \A i, j \in 1..Len(slots) :
          i < j => slots[j] - slots[i] >= delay_between_requests
    /\ \A c \in QCallers : qpc[c] = "in_flight" => q_now >= sleep_until[c]
    /\ Len(slots) > 0 => last_request_time = slots[Len(slots)]

\* C9 witness: two callers hold slots at once and were given different
\* release times by the gate, one of them still in the future.
C9_Witness ==
    \E c, d \in QCallers :
        /\ c # d
        /\ qpc[c] = "in_flight"
        /\ qpc[d] = "gate_sleep"
        /\ sleep_until[d] > q_now
        /\ sleep_until[d] - sleep_until[c] >= delay_between_requests

(***************************************************************************)
(*                    Properties of the tracer                             *)
(***************************************************************************)

\* C13: after any sequence of emits, including emits whose append to the file
\* fails, the events stored in events.jsonl are a prefix of the in-memory event
\* log, in the same order.
C13_FileIsPrefixOfLog ==
    /\ Len(events_file) <= Len(events)
    /\ \A i \in 1..Len(events_file) : events_file[i] = to_dict(events[i])

\* C14: every emitted event carries an event_id, and the ids are unique and
\* strictly increasing in emit order.
C14_EventIdsIncrease ==
    /\ \A i \in 1..Len(events) : "event_id" \in DOMAIN events[i]
    /\ \A i, j \in 1..Len(events) : i < j => events[i].event_id < events[j].event_id

\* C15: once a finding has been added (no create_vulnerability_report call is
\* under way), each finding held by the tracer has a row in vulnerabilities.csv
\* and a file vulnerabilities/<id>.md.
C15_FindingsAreOnDisk ==
    (\A c \in Reporters : rpc[c] = "idle") =>
        \A i \in 1..Len(vulnerability_reports) :
            /\ vulnerability_reports[i].id \in Range(vuln_csv)
            /\ \E f \in vuln_files : f[1] = vulnerability_reports[i].id

\* C16: finding ids are unique and strictly increasing, and adding a finding
\* never overwrites the file of an existing id, also for a tracer started on a
\* run directory that already holds findings.
C16_FindingIdsNeverReused ==
    /\ \A i, j \in 1..Len(vulnerability_reports) :
          i < j => vulnerability_reports[i].id < vulnerability_reports[j].id
    /\ ~overwritten

(***************************************************************************)
(*                    Properties of the run plan                           *)
(***************************************************************************)

\* the dependencies of task i are all completed or skipped
DepsSatisfied(i) ==
    \A d \in tasks[i].depends_on : tasks[d].status \in {T_COMPLETED, T_SKIPPED}

\* C17: every task whose status is in_progress or completed has all the tasks
\* of its depends_on list in status completed or skipped.
C17_StartedOnlyAfterDependencies ==
    \A i \in 1..Len(tasks) :
        tasks[i].status \in {T_IN_PROGRESS, T_COMPLETED} => DepsSatisfied(i)

\* C18: an invalid transition is rejected and changes nothing: a completed,
\* failed or skipped task keeps its status, and a pending task is not completed
\* or failed without having been started.
C18_InvalidTransitionRejected ==
    [][\A i \in 1..Len(tasks) :
          /\ (tasks[i].status \in {T_COMPLETED, T_FAILED, T_SKIPPED})
                => (tasks'[i].status = tasks[i].status)
          /\ (tasks[i].status = T_PENDING)
                => (tasks'[i].status \in {T_PENDING, T_IN_PROGRESS, T_SKIPPED})
      ]_vars

\* C19: get_next_task returns a pending task whose dependencies are all
\* completed or skipped, the first such task of the plan, and returns nothing
\* only when no pending task has all its dependencies satisfied.
C19_NextTaskIsFirstReady ==
    LET ready == {i \in 1..Len(tasks) : tasks[i].status = T_PENDING /\ DepsSatisfied(i)}
    IN IF ready = {} THEN get_next_task = NoId
       ELSE get_next_task \in ready /\ \A j \in ready : get_next_task <= j

\* the phase status the tasks of a phase determine
DerivedPhaseStatus(phase_id) ==
    LET mine == get_tasks_by_phase(tasks, phase_id)
    IN IF \A i \in mine : tasks[i].status = T_COMPLETED THEN P_COMPLETED
       ELSE IF /\ \A i \in mine : tasks[i].status \in {T_COMPLETED, T_FAILED, T_SKIPPED}
               /\ \E i \in mine : tasks[i].status = T_FAILED
            THEN P_PARTIALLY_COMPLETED
       ELSE IF \E i \in mine : tasks[i].status = T_IN_PROGRESS THEN P_IN_PROGRESS
       ELSE P_PENDING

\* C20: after any sequence of add_task, start_task, complete_task, fail_task and
\* skip_task, the status of each phase that has tasks equals the derived value.
C20_PhaseStatusIsDerived ==
    \A p \in 1..Len(phases) :
        get_tasks_by_phase(tasks, p) # {} => phases[p].status = DerivedPhaseStatus(p)

\* C21: after every state-changing run-plan operation the run_plan.json
\* snapshot equals the plan in memory, and no reader or crash finds a
\* partially written file.
C21_SnapshotIsCurrent ==
    /\ plan_file # "partial"
    /\ (Len(tasks) > 0 \/ Len(phases) > 0 \/ is_paused) => plan_file = "current"

(***************************************************************************)
(*                    Properties of the tool server                        *)
(***************************************************************************)

\* C22: a worker terminates itself exactly when five catch-all failures have
\* occurred with no successful action between them, and the next request for
\* the agent is then served by a freshly started worker with fresh queues.
C22_TerminatesAtFiveThenFresh ==
    [][/\ (worker = "alive" /\ worker' = "exiting")
            <=> (/\ worker = "alive"
                 /\ catchall_run = max_consecutive_errors - 1
                 /\ catchall_run' = max_consecutive_errors)
       /\ \A c \in XCallers :
             (/\ xpc[c] = "idle"
              /\ xpc'[c] = "waiting"
              /\ catchall_run = max_consecutive_errors)
                => (worker' = "alive" /\ created' = created + 1
                                      /\ my_queues'[c] = created + 1)
      ]_vars

(***************************************************************************)
(*                    Properties of the response cache                     *)
(***************************************************************************)

\* C23: after any sequence of get, put, invalidate and clear operations on an
\* enabled cache the number of stored entries never exceeds max_size.
C23_SizeBounded ==
    /\ Len(cache) <= max_size
    /\ Cardinality(Range(cache)) = Len(cache)

\* C23 witness: a full cache after two puts that each had to evict.
C23_Witness ==
    /\ cache_op.name = "put"
    /\ Len(cache) = max_size
    /\ stats.evictions = 2
    /\ stats.misses = 0

C25_GetNeverReturnsExpired ==
    [][(cache_ops' # cache_ops /\ cache_op'.name = "get")
          => LET k == cache_op'.key
             IN /\ (k \in Range(cache) /\ cache_now - created_at[k] > ttl_seconds)
                      => /\ cache_op'.result # "hit"
                         /\ k \notin Range(cache')
                         /\ stats'.misses = stats.misses + 1
                /\ (k \notin Range(cache))
                      => /\ cache_op'.result # "hit"
                         /\ k \notin Range(cache')
                         /\ stats'.misses = stats.misses + 1
                /\ (cache_op'.result = "hit")
                      => /\ k \in Range(cache)
                         /\ cache_now - created_at[k] <= ttl_seconds
      ]_vars

\* C25 witness: a get has just found its entry expired and removed it, and
\* another entry is still stored.
C25_Witness ==
    /\ cache_op.name = "get"
    /\ cache_op.result = "expired"
    /\ cache_op.key \notin Range(cache)
    /\ cache # << >>
    /\ stats.misses = 1

(***************************************************************************)
(*                    Properties of the event stream consumer              *)
(***************************************************************************)

\* C26: a consumer that starts at cursor 0 and always polls with the last
\* returned cursor has received, after every poll, exactly the events below
\* its cursor, each once and in emit order, however polls interleave with emits.
C26_ConsumerReceivesEveryEventOnce ==
    ppc = "idle" => received = SubSeq(events, 1, cursor)

\* C27: a registered callback that raises never makes the producing operation
\* fail: no call of add_vulnerability_report is left by the exception of the
\* callback.
C27_CallbackNeverFailsProducer ==
    \A c \in Reporters : call_raised[c] # "callback"

(***************************************************************************)
(*                    Properties of the agent loop                         *)
(***************************************************************************)

C30_LookupAndFlagSameRegistration ==
    \A n \in ToolNames :
        get_tool_by_name(n) # "none"
          => \E i \in 1..Len(tools) :
                /\ tools[i].name = n
                /\ tools[i].function = get_tool_by_name(n)
                /\ tools[i].sandbox_execution = should_execute_in_sandbox(n)

(***************************************************************************)
(*                    Properties settled last                              *)
(***************************************************************************)

\* C37: a put for a key that is already stored replaces that key's entry
\* without evicting any other entry, also when the cache is at max_size, and
\* makes the key the most recently used.
C37_RePutEvictsNothing ==
    [][(/\ cache_ops' # cache_ops
        /\ cache_op'.name = "put"
        /\ cache_op'.key \in Range(cache))
          => /\ Range(cache') = Range(cache)
             /\ stats'.evictions = stats.evictions
             /\ cache'[Len(cache')] = cache_op'.key
      ]_vars

\* C34: a breaker that has entered half-open always eventually leaves it:
\* every admitted probe ends in a recorded success or failure, so the breaker
\* is never half-open with its probe budget used up and no probe in flight
\* (the state in which every later call is rejected).
C34_HalfOpenNeverStuck ==
    (cb_state = HALF_OPEN /\ half_open_calls >= half_open_max_calls)
        => \E c \in GCallers : gpc[c] = "request"

\* C35: the breaker moves from half-open to closed only after a probe request
\* was sent to the provider and succeeded; a generate call answered from the
\* response cache does not close the breaker.
C35_ClosedOnlyBySentProbe ==
    [][(cb_state = HALF_OPEN /\ cb_state' = CLOSED /\ cb_op' = "record_success")
          => \E c \in GCallers :
                gpc[c] = "request" /\ gpc'[c] = "done" /\ ~cached[c]
      ]_vars

\* C33: every execute_tool call returns the response that the worker produced
\* for that call's own request, never the response to another request of the
\* same agent.
C33_ResponseBelongsToRequest ==
    \A c \in XCallers :
        (xpc[c] = "idle" /\ my_request[c] # 0) => got[c].for = my_request[c]

\* C36: for every request a worker takes from its request queue it puts
\* exactly one response on its response queue, including for the request whose
\* failure makes the worker terminate.
C36_OneResponsePerRequest ==
    [][(busy # 0 /\ busy' = 0 /\ created' = created)
          => Len(response_q'[created]) = Len(response_q[created]) + 1
      ]_vars

\* C38: in every reachable run-plan state current_task_id is either null or
\* the id of a task whose status is in_progress.
C38_CurrentTaskIsInProgress ==
    \/ current_task_id = NoId
    \/ /\ current_task_id \in 1..Len(tasks)
       /\ tasks[current_task_id].status = T_IN_PROGRESS

\* C40: a run emits the scan_complete event at most once, whatever combination
\* of signal handler and exit hook occurs at the end of the run.
C40_ScanCompleteAtMostOnce ==
    Cardinality({i \in 1..Len(events) : events[i].event_type = "scan_complete"}) <= 1

(***************************************************************************)
(*                    Properties of the reconciler                         *)
(***************************************************************************)

\* C31: check reports loop_detected, not auto-fixable, whenever at least 3
\* assistant messages among the last 6 messages have identical first
\* characters, whatever the other messages in that window contain.
C31_LoopDetectedOnThreeIdentical ==
    (/\ Len(messages) >= 6
     /\ \E p \in {Prefix(c) : c \in Contents} :
           Cardinality({i \in (Len(messages) - 5)..Len(messages) :
                           /\ messages[i].role = "assistant"
                           /\ Prefix(messages[i].content) = p}) >= 3)
        => \E i \in Issues : i.issue_type = "loop_detected" /\ ~i.auto_fixable

\* C32: whenever iteration > max_iterations, check reports an auto-fixable
\* issue and auto_fix sets iteration to max_iterations, changing no other
\* field of the agent state; after auto_fix, iteration <= max_iterations.
C32_AutoFixClampsIteration ==
    [][/\ (/\ agent_op' = "check_for_issues"
           /\ agent_now' = agent_now
           /\ iteration > max_iterations)
             => \E i \in issues' : i.field_path = "iteration" /\ i.auto_fixable
       /\ (agent_op' = "auto_fix_issues" /\ agent_now' = agent_now)
             => /\ iteration' = IF iteration > max_iterations THEN max_iterations
                                ELSE iteration
                /\ iteration' <= max_iterations
                /\ UNCHANGED <<status, waiting_start_time, failure_reason, final_result,
                               task, consecutive_empty_responses, messages>>
      ]_vars

\* C32 witness: auto_fix has found the iteration issue and clamped the count.
C32_Witness ==
    /\ agent_op = "auto_fix_issues"
    /\ iteration = max_iterations
    /\ \E i \in issues : i.field_path = "iteration" /\ i.auto_fixable
    /\ status = WAITING_FOR_MESSAGE

(***************************************************************************)
(*                    Properties of the notes tools                        *)
(***************************************************************************)

====
